---- MODULE Spec2Model ----
(***************************************************************************)
(* Model of pyOBD-II 0.4: the ELM32x interface life cycle, the Service $04 *)
(* reset-confirmation guard, the multi-frame reassembly engine for ISO     *)
(* 15765 and for the legacy protocols, and the decoding of responses       *)
(* (obd/interface/base.py, obd/interface/elm.py, obd/protocol.py,          *)
(* obd/serialport.py, obd/message/*.py, obd/exception.py).                 *)
(***************************************************************************)
EXTENDS Integers, Sequences, FiniteSets, TLC

(***************************************************************************)
(* Bounds of the exploration.                                              *)
(***************************************************************************)
\* tokens 0..MaxToken stand for random.randint(0, 0xFFFFFFFF)
MaxToken == 2
\* largest frame count of a message whose frames arrive in any order
MaxPermFrames == 10
\* largest frame count of a message whose frames arrive in order, none lost
MaxOrderedFrames == 17
\* largest frame count of a message of which frames may be lost
MaxDropFrames == 4

(***************************************************************************)
(* The state of the interface and of its environment                       *)
(***************************************************************************)
VARIABLES
    interface_configured,  \* ELM32X.interface_configured
    connected_to_vehicle,  \* ELM32X.connected_to_vehicle
    vehicle_protocol,      \* ELM32X.vehicle_protocol ("unset" before the first connect)
    protocol_response,     \* ELM327._protocol_response
    token,                 \* Interface._token
    frames_received,       \* Interface._frames_received
    complete_messages,     \* Interface._complete_messages
    pc,                    \* "idle", or "reading" inside _process_obd_response
    call,                  \* the operation in progress or last called, with its arguments
    outcome,               \* how the last operation ended
    written,               \* what the last operation wrote to the port
    bus,                   \* the response on the wire
    arrived,               \* per ECU, the frames handed to the reassembler
    lost,                  \* per ECU, the frames that never arrive
    processed,             \* whether the last _process_obd_response returned, and its list
    completion_log,        \* headers of the messages completed on frame arrival, in order
    last_rrc,              \* the token of the most recent ResetRequiresConfirmation
    consumed,              \* the token accepted since the last ResetRequiresConfirmation
    session_ok,            \* a connect_to_vehicle returned and no disconnect since
    reply,                 \* the text the scan tool sent during the last operation
    flow_control,          \* a Flow Control frame on the wire: its header, and whether it arrived
    port,                  \* SerialPort: baud rate, deadline, polling interval, pyserial timeout
    now,                   \* time.time(), in milliseconds
    rd,                    \* the read_until_string call in progress or last ended
    search,                \* the search_for_protocol call in progress or last ended
    probe,                 \* the detect_baudrate call in progress or last ended
    registry,              \* obd.message._message_classes
    msg                    \* the last call of the message layer: arguments and result

(***************************************************************************)
(* Python's None, for tokens, sequence numbers, lengths and data bytes.    *)
(***************************************************************************)
NoneVal == -1

\* a slot of a pending frame list that holds None
NoFrame == [header |-> <<>>, data_bytes |-> <<>>]

\* PCI frame types of ISO15765Frame
SF == 0
FF == 16
CF == 32

\* b & 0xF0 and b & 0x0F
HiNibble(b) == (b \div 16) * 16
LoNibble(b) == b % 16

(***************************************************************************)
(* obd/protocol.py: ISO15765_4.create_frame, ISO15765Frame                 *)
(***************************************************************************)
\* Interface._parse_frame -> ISO15765_4.create_frame: 4 header bytes, the
\* rest is data
parse_frame(raw) ==
    [header |-> SubSeq(raw, 1, 4), data_bytes |-> SubSeq(raw, 5, Len(raw))]

\* a key that leaves out the last header byte (the ECU's address)
sequence_key_no_source(frame) == SubSeq(frame.header, 1, 3)

\* Frame.sequence_key: the header bytes
sequence_key(frame) == frame.header

\* ISO15765Frame.sequence_number raises TypeError when last_sn is None
sequence_number_raises(frame, last_sn) ==
    HiNibble(frame.data_bytes[1]) = CF /\ last_sn = NoneVal

\* a sequence number without the wrap: the high bits of the last number and
\* the four bits of the frame
sequence_number_no_wrap(frame, last_sn) ==
    LET frame_type == HiNibble(frame.data_bytes[1]) IN
    IF frame_type = SF \/ frame_type = FF THEN 0
    ELSE IF frame_type = CF
         THEN (last_sn - (last_sn % 16)) + LoNibble(frame.data_bytes[1])
         ELSE NoneVal

\* a sequence number that takes every step backwards for a wrap
sequence_number_monotone(frame, last_sn) ==
    LET frame_type == HiNibble(frame.data_bytes[1]) IN
    IF frame_type = SF \/ frame_type = FF THEN 0
    ELSE IF frame_type = CF
         THEN LET seq == (last_sn - (last_sn % 16)) + LoNibble(frame.data_bytes[1])
              IN  IF seq < last_sn THEN seq + 16 ELSE seq
         ELSE NoneVal

sequence_number(frame, last_sn) ==
    LET frame_type == HiNibble(frame.data_bytes[1]) IN
    IF frame_type = SF \/ frame_type = FF THEN 0
    ELSE IF frame_type = CF
         THEN LET seq == (last_sn - (last_sn % 16)) + LoNibble(frame.data_bytes[1])
              IN  IF seq < last_sn - 7 THEN seq + 16 ELSE seq
         ELSE NoneVal

\* ISO15765Frame.data_length raises for a Single Frame with length > 7
data_length_raises(frame) ==
    HiNibble(frame.data_bytes[1]) = SF /\ LoNibble(frame.data_bytes[1]) > 7

data_length(frame) ==
    LET frame_type == HiNibble(frame.data_bytes[1])
        length == LoNibble(frame.data_bytes[1]) IN
    IF frame_type = SF THEN length
    ELSE IF frame_type = FF THEN length * 256 + frame.data_bytes[2]
    ELSE NoneVal

\* a frame count of ceil(length / 7) + 1 for the lengths above 7
sequence_length_ceil(frame) ==
    LET length == data_length(frame) IN
    IF length = NoneVal \/ length = 0 THEN length
    ELSE IF length <= 7 THEN 1
    ELSE ((length + 6) \div 7) + 1

sequence_length(frame) ==
    LET length == data_length(frame) IN
    IF length = NoneVal \/ length = 0 THEN length
    ELSE IF length <= 7 THEN 1
    ELSE (length \div 7) + 1

\* an assembler that sizes every missing frame's placeholders with offset 1
RECURSIVE assemble_from_offset1(_, _, _)
assemble_from_offset1(self, frames, i) ==
    IF i > Len(frames) THEN <<>>
    ELSE LET offset == IF i = 1 /\ Len(frames) > 1 THEN 2 ELSE 1
             piece == IF frames[i] = NoFrame
                      THEN [j \in 1..(Len(self.data_bytes) - 1) |-> NoneVal]
                      ELSE SubSeq(frames[i].data_bytes, offset + 1,
                                  Len(frames[i].data_bytes))
         IN  piece \o assemble_from_offset1(self, frames, i + 1)

RECURSIVE assemble_from(_, _, _)
assemble_from(self, frames, i) ==
    IF i > Len(frames) THEN <<>>
    ELSE LET offset == IF i = 1 /\ Len(frames) > 1 THEN 2 ELSE 1
             piece == IF frames[i] = NoFrame
                      THEN [j \in 1..(Len(self.data_bytes) - offset) |-> NoneVal]
                      ELSE SubSeq(frames[i].data_bytes, offset + 1,
                                  Len(frames[i].data_bytes))
         IN  piece \o assemble_from(self, frames, i + 1)

\* ISO15765Frame.assemble_message
assemble_message(self, frames) == assemble_from(self, frames, 1)

(***************************************************************************)
(* obd/message/base.py: BusMessage                                         *)
(***************************************************************************)
BusMessage(header, data) ==
    [header |-> header, data_bytes |-> data,
     incomplete |-> \E i \in 1..Len(data) : data[i] = NoneVal]

(***************************************************************************)
(* obd/protocol.py, obd/message/sid03.py, obd/message/sid09.py: the frames *)
(* of the legacy (non-ISO 15765) protocols.  A frame record of a legacy    *)
(* protocol carries its class; one of ISO 15765 is an ISO15765Frame        *)
(***************************************************************************)
\* the ELM numbers of the protocols whose create_frame is LegacyProtocol's:
\* SAE J1850 PWM and VPW, ISO 9141-2, ISO 14230-4 (5 baud and fast init)
LegacyProtocols == {"1", "2", "3", "4", "5"}

\* LegacyFrame.create and LegacyFrame.__init__: 3 header bytes, the checksum
\* at the end, and the class registered for the SID without its response bit
LegacyFrame_create(raw) ==
    LET sid == raw[4] - 64 * ((raw[4] \div 64) % 2)
    IN  [header |-> SubSeq(raw, 1, 3),
         data_bytes |-> SubSeq(raw, 4, Len(raw) - 1),
         checksum |-> raw[Len(raw)],
         class |-> IF sid = 3 \/ sid = 7 THEN "LegacyFrameSid03"
                   ELSE IF sid = 9 THEN "LegacyFrameSid09"
                   ELSE "LegacyFrame"]

\* Interface._parse_frame: vehicle_protocol.create_frame
create_frame(raw) ==
    IF vehicle_protocol \in LegacyProtocols THEN LegacyFrame_create(raw)
    ELSE parse_frame(raw)

FrameClass(frame) ==
    IF "class" \in DOMAIN frame THEN frame.class ELSE "ISO15765Frame"

\* LegacyFrameSid09._sequence_lengths, None for the variable counts
Sid09SequenceLengths ==
    (0 :> 1) @@ (2 :> 5) @@ (4 :> NoneVal) @@ (6 :> NoneVal) @@ (8 :> 8) @@ (10 :> 5)
\* LegacyFrameSid09.pid
LegacyFrameSid09_pid(frame) == frame.data_bytes[2]

\* LegacyFrame._sequence_key: header and SID
LegacyFrame_sequence_key(frame) == frame.header \o <<frame.data_bytes[1]>>
\* LegacyFrameSid09._sequence_key: header, SID and PID
LegacyFrameSid09_sequence_key(frame) == frame.header \o SubSeq(frame.data_bytes, 1, 2)

\* LegacyFrameSid09.sequence_number: MessageCount - 1 for the PIDs of the
\* table (MessageCount is at least 1 in the frames explored)
LegacyFrameSid09_sequence_number(frame) ==
    IF LegacyFrameSid09_pid(frame) \in DOMAIN Sid09SequenceLengths
    THEN frame.data_bytes[3] - 1
    ELSE NoneVal

\* LegacyFrameSid09.sequence_length
LegacyFrameSid09_sequence_length(frame) ==
    IF LegacyFrameSid09_pid(frame) \in DOMAIN Sid09SequenceLengths
    THEN Sid09SequenceLengths[LegacyFrameSid09_pid(frame)]
    ELSE 1

\* the loop of the legacy assemble_message: of every frame the bytes after
\* the first `skip`, placeholders of the size of self for a missing frame
RECURSIVE legacy_assemble_from(_, _, _, _)
legacy_assemble_from(self, frames, skip, i) ==
    IF i > Len(frames) THEN <<>>
    ELSE LET piece == IF frames[i] = NoFrame
                      THEN [j \in 1..(Len(self.data_bytes) - skip) |-> NoneVal]
                      ELSE SubSeq(frames[i].data_bytes, skip + 1,
                                  Len(frames[i].data_bytes))
         IN  piece \o legacy_assemble_from(self, frames, skip, i + 1)

\* an assembler of Service $03 that keeps the SID of every frame
LegacyFrameSid03_assemble_message_keep_sid(self, frames) ==
    <<self.data_bytes[1]>> \o legacy_assemble_from(self, frames, 0, 1)

\* LegacyFrameSid03.assemble_message: the SID once, then the DTC bytes
LegacyFrameSid03_assemble_message(self, frames) ==
    <<self.data_bytes[1]>> \o legacy_assemble_from(self, frames, 1, 1)

\* an assembler of Service $09 that keeps the MessageCount byte
LegacyFrameSid09_assemble_message_keep_mc(self, frames) ==
    IF LegacyFrameSid09_pid(self) \in DOMAIN Sid09SequenceLengths
    THEN SubSeq(self.data_bytes, 1, 2) \o legacy_assemble_from(self, frames, 2, 1)
    ELSE self.data_bytes

\* LegacyFrameSid09.assemble_message: SID and PID once, then the bytes after
\* MessageCount; a MessageCount response is its own data
LegacyFrameSid09_assemble_message(self, frames) ==
    IF LegacyFrameSid09_pid(self) \in DOMAIN Sid09SequenceLengths
    THEN SubSeq(self.data_bytes, 1, 2) \o legacy_assemble_from(self, frames, 3, 1)
    ELSE self.data_bytes

\* the assertions of LegacyFrameSid09.assemble_message for a PID outside the
\* table: a single frame, of a MessageCount PID
LegacyFrameSid09_assemble_raises(self, frames) ==
    /\ LegacyFrameSid09_pid(self) \notin DOMAIN Sid09SequenceLengths
    /\ Len(frames) # 1 \/ LegacyFrameSid09_pid(self) \notin {1, 3, 5, 7, 9}

(***************************************************************************)
(* The methods of a frame, by its class                                    *)
(***************************************************************************)
frame_sequence_key(frame) ==
    IF FrameClass(frame) = "ISO15765Frame" THEN sequence_key(frame)
    ELSE IF FrameClass(frame) = "LegacyFrameSid09"
    THEN LegacyFrameSid09_sequence_key(frame)
    ELSE LegacyFrame_sequence_key(frame)

frame_sequence_number_raises(frame, last_sn) ==
    FrameClass(frame) = "ISO15765Frame" /\ sequence_number_raises(frame, last_sn)

\* Frame.sequence_number returns None
frame_sequence_number(frame, last_sn) ==
    IF FrameClass(frame) = "ISO15765Frame" THEN sequence_number(frame, last_sn)
    ELSE IF FrameClass(frame) = "LegacyFrameSid09"
    THEN LegacyFrameSid09_sequence_number(frame)
    ELSE NoneVal

frame_sequence_length_raises(frame) ==
    FrameClass(frame) = "ISO15765Frame" /\ data_length_raises(frame)

\* LegacyFrameSid03.sequence_length returns None, Frame.sequence_length 1
frame_sequence_length(frame) ==
    IF FrameClass(frame) = "ISO15765Frame" THEN sequence_length(frame)
    ELSE IF FrameClass(frame) = "LegacyFrameSid09"
    THEN LegacyFrameSid09_sequence_length(frame)
    ELSE IF FrameClass(frame) = "LegacyFrameSid03" THEN NoneVal
    ELSE 1

frame_assemble_raises(self, frames) ==
    FrameClass(self) = "LegacyFrameSid09" /\ LegacyFrameSid09_assemble_raises(self, frames)

\* Frame.assemble_message returns the data bytes of the frame
frame_assemble_message(self, frames) ==
    IF FrameClass(self) = "ISO15765Frame" THEN assemble_message(self, frames)
    ELSE IF FrameClass(self) = "LegacyFrameSid09"
    THEN LegacyFrameSid09_assemble_message(self, frames)
    ELSE IF FrameClass(self) = "LegacyFrameSid03"
    THEN LegacyFrameSid03_assemble_message(self, frames)
    ELSE self.data_bytes

(***************************************************************************)
(* obd/interface/base.py: the pending map and the reassembler              *)
(***************************************************************************)
EmptyMap == [k \in {} |-> 0]
MapPut(m, k, v) == [x \in (DOMAIN m) \cup {k} |-> IF x = k THEN v ELSE m[x]]
MapDel(m, k) == [x \in (DOMAIN m) \ {k} |-> m[x]]

HasNone(frames) == \E i \in 1..Len(frames) : frames[i] = NoFrame
FirstNone(frames) ==
    CHOOSE i \in 1..Len(frames) :
        frames[i] = NoFrame /\ \A j \in 1..(i - 1) : frames[j] # NoFrame

\* a queue that puts at the head
queue_put_front(queue, bus_message) == <<bus_message>> \o queue

\* Queue.put: append at the tail
queue_put(queue, bus_message) == Append(queue, bus_message)

\* the storing of the frame with a test of the truth of sequence_length
\* where the code tests `is not None`: a declared length of 0 counts as
\* unknown
store_frame_truthy_length(fr, queue, frame, key, entry, sn, slen) ==
    LET needed == IF slen = NoneVal \/ slen = 0
                  THEN (IF sn = NoneVal THEN 0 ELSE sn + 1)
                  ELSE slen
        frames1 == IF Len(entry.frames) < needed
                   THEN entry.frames \o
                        [i \in 1..(needed - Len(entry.frames)) |-> NoFrame]
                   ELSE entry.frames
        frames2 == IF sn # NoneVal THEN [frames1 EXCEPT ![sn + 1] = frame]
                   ELSE IF HasNone(frames1)
                        THEN [frames1 EXCEPT ![FirstNone(frames1)] = frame]
                        ELSE Append(frames1, frame)
    IN
    IF sn # NoneVal /\ sn + 1 > Len(frames1)
    THEN [fr |-> MapPut(fr, key, [entry EXCEPT !.frames = frames1]),
          queue |-> queue, raised |-> "IndexError"]
    ELSE IF slen # NoneVal /\ slen # 0 /\ ~HasNone(frames2)
    THEN IF frame_assemble_raises(frames2[1], frames2)
         THEN [fr |-> MapPut(fr, key, [entry EXCEPT !.frames = frames2]),
               queue |-> queue, raised |-> "AssertionError"]
         ELSE [fr |-> MapDel(fr, key),
               queue |-> queue_put(queue,
                            BusMessage(frame.header,
                                       frame_assemble_message(frames2[1], frames2))),
               raised |-> "none"]
    ELSE [fr |-> MapPut(fr, key, [frames |-> frames2, last |-> sn, len |-> slen]),
          queue |-> queue, raised |-> "none"]

\* Interface._received_obd_frame from "Determine the number of frames
\* needed" on: room is made in the frame list of the entry, the frame is
\* stored at its sequence number or in the first free slot, and the message
\* is posted once its length is known and no slot is free
store_frame(fr, queue, frame, key, entry, sn, slen) ==
    LET needed == IF slen = NoneVal \/ slen = 0
                  THEN (IF sn = NoneVal THEN 0 ELSE sn + 1)
                  ELSE slen
        frames1 == IF Len(entry.frames) < needed
                   THEN entry.frames \o
                        [i \in 1..(needed - Len(entry.frames)) |-> NoFrame]
                   ELSE entry.frames
        frames2 == IF sn # NoneVal THEN [frames1 EXCEPT ![sn + 1] = frame]
                   ELSE IF HasNone(frames1)
                        THEN [frames1 EXCEPT ![FirstNone(frames1)] = frame]
                        ELSE Append(frames1, frame)
    IN
    IF sn # NoneVal /\ sn + 1 > Len(frames1)
    THEN [fr |-> MapPut(fr, key, [entry EXCEPT !.frames = frames1]),
          queue |-> queue, raised |-> "IndexError"]
    ELSE IF slen # NoneVal /\ ~HasNone(frames2)
    THEN IF frame_assemble_raises(frames2[1], frames2)
         THEN [fr |-> MapPut(fr, key, [entry EXCEPT !.frames = frames2]),
               queue |-> queue, raised |-> "AssertionError"]
         ELSE [fr |-> MapDel(fr, key),
               queue |-> queue_put(queue,
                            BusMessage(frame.header,
                                       frame_assemble_message(frames2[1], frames2))),
               raised |-> "none"]
    ELSE [fr |-> MapPut(fr, key, [frames |-> frames2, last |-> sn, len |-> slen]),
          queue |-> queue, raised |-> "none"]

\* Interface._received_obd_frame on a parsed frame: the entry of its key,
\* created if it is new, then its sequence number and the sequence length
received_frame(fr, queue, frame, key) ==
    LET entry == IF key \in DOMAIN fr THEN fr[key]
                 ELSE [frames |-> <<>>, last |-> 0, len |-> NoneVal]
    IN
    IF frame_sequence_number_raises(frame, entry.last)
    THEN [fr |-> MapPut(fr, key, entry), queue |-> queue, raised |-> "TypeError"]
    ELSE IF entry.len = NoneVal /\ frame_sequence_length_raises(frame)
    THEN [fr |-> MapPut(fr, key, entry), queue |-> queue, raised |-> "NameError"]
    ELSE store_frame(fr, queue, frame, key, entry,
                     frame_sequence_number(frame, entry.last),
                     IF entry.len = NoneVal THEN frame_sequence_length(frame)
                     ELSE entry.len)

\* Interface._received_obd_frame; the result carries the pending map, the
\* completed-messages queue and the exception raised ("none" if it returned)
received_obd_frame(fr, queue, raw) ==
    received_frame(fr, queue, create_frame(raw),
                   frame_sequence_key(create_frame(raw)))

FirstReceived(frames) ==
    frames[CHOOSE i \in 1..Len(frames) :
               frames[i] # NoFrame /\ \A j \in 1..(i - 1) : frames[j] = NoFrame]

\* the body of the loop of Interface._flush_frames for one pending entry:
\* the exception it raises, or "none"
flush_entry_raises(entry) ==
    IF HasNone(entry.frames)
    THEN IF \A i \in 1..Len(entry.frames) : entry.frames[i] = NoFrame
         THEN "AssertionError" ELSE "none"
    ELSE IF entry.len # NoneVal THEN "AssertionError"
         ELSE IF entry.frames = <<>> THEN "IndexError"
         ELSE IF frame_assemble_raises(entry.frames[1], entry.frames)
         THEN "AssertionError" ELSE "none"

flush_entry_message(entry) ==
    LET first_received == IF HasNone(entry.frames) THEN FirstReceived(entry.frames)
                          ELSE entry.frames[1]
    IN  BusMessage(first_received.header,
                   frame_assemble_message(first_received, entry.frames))

RECURSIVE flush_from(_, _, _, _)
flush_from(fr, queue, order, i) ==
    IF i > Len(order) THEN [fr |-> EmptyMap, queue |-> queue, raised |-> "none"]
    ELSE LET entry == fr[order[i]]
             exc == flush_entry_raises(entry)
         IN  IF exc # "none"
             THEN [fr |-> EmptyMap, queue |-> queue, raised |-> exc]
             ELSE flush_from(fr, queue_put(queue, flush_entry_message(entry)),
                             order, i + 1)

\* _flush_frames without the finally clause: an exception leaves the map
flush_frames_no_finally(fr, queue, order) ==
    LET f == flush_from(fr, queue, order, 1)
    IN  IF f.raised # "none" THEN [f EXCEPT !.fr = fr] ELSE f

\* Interface._flush_frames; order is the iteration order of the dict's values
flush_frames(fr, queue, order) == flush_from(fr, queue, order, 1)

\* the iteration orders a dict with these keys may have
KeyOrders(fr) ==
    {o \in [1..Cardinality(DOMAIN fr) -> DOMAIN fr] :
        \A i, j \in 1..Cardinality(DOMAIN fr) : i # j => o[i] # o[j]}


(***************************************************************************)
(* obd/message/__init__.py: create, for a SID without registered class     *)
(* (the KeyError branch): a generic Message starting at offset 1           *)
(***************************************************************************)
\* BusMessage.sid()/is_response() raise on an empty payload (IndexError) and
\* on a placeholder in the SID position (TypeError)
create_raises(bus_message) ==
    IF bus_message.data_bytes = <<>> THEN "IndexError"
    ELSE IF bus_message.data_bytes[1] = NoneVal THEN "TypeError"
    ELSE "none"

\* Message.__init__ with length None: data_bytes[offset:], incomplete flag
create(bus_message) ==
    LET data == SubSeq(bus_message.data_bytes, 2, Len(bus_message.data_bytes))
    IN  [bus_message |-> bus_message, data_bytes |-> data,
         incomplete |-> \E i \in 1..Len(data) : data[i] = NoneVal]

(***************************************************************************)
(* obd/message/__init__.py: the registry _message_classes.  A SID maps to  *)
(* a list [request class, response class] (kind "list", under the key      *)
(* None) or to a dict of such lists by PID (kind "dict")                   *)
(***************************************************************************)
NoClasses == <<"None", "None">>
NoMsg == [op |-> "none"]

\* the registrations made when obd.message is imported, for the PIDs and
\* SIDs explored
BuiltinRegistry ==
    (1 :> [kind |-> "dict",
           classes |-> (0 :> <<"None", "PIDSupportResponse">>
                        @@ 1 :> <<"None", "MonitorStatusResponse">>
                        @@ 32 :> <<"None", "PIDSupportResponse">>)])
    @@ (3 :> [kind |-> "list",
              classes |-> (NoneVal :> <<"None", "DTCResponse">>)])
    @@ (9 :> [kind |-> "dict",
              classes |-> (0 :> <<"None", "PIDSupportResponse">>
                           @@ 2 :> <<"None", "VINResponse">>
                           @@ 4 :> <<"None", "CalibrationIDResponse">>
                           @@ 6 :> <<"None", "CVNResponse">>
                           @@ 8 :> <<"None", "IPTResponse">>
                           @@ 10 :> <<"None", "ECUNameResponse">>)])

\* index = (response == True)
ClassIndex(response) == IF response THEN 2 ELSE 1

\* a registration that never refuses
register_message_class_unguarded(reg, sid, pid, response, message_class, override) ==
    LET reg1 == IF sid \in DOMAIN reg THEN reg
                ELSE MapPut(reg, sid,
                       IF pid = NoneVal
                       THEN [kind |-> "list", classes |-> (NoneVal :> NoClasses)]
                       ELSE [kind |-> "dict", classes |-> EmptyMap])
        key == IF reg1[sid].kind = "list" THEN NoneVal ELSE pid
        old == IF key \in DOMAIN reg1[sid].classes
               THEN reg1[sid].classes[key] ELSE NoClasses
    IN  [reg |-> [reg1 EXCEPT ![sid].classes =
                     MapPut(@, key, [old EXCEPT ![ClassIndex(response)] = message_class])],
         raised |-> "none"]

\* register_message_class: the registry afterwards and the exception raised
register_message_class(reg, sid, pid, response, message_class, override) ==
    LET reg1 == IF sid \in DOMAIN reg THEN reg
                ELSE MapPut(reg, sid,
                       IF pid = NoneVal
                       THEN [kind |-> "list", classes |-> (NoneVal :> NoClasses)]
                       ELSE [kind |-> "dict", classes |-> EmptyMap])
        entry == reg1[sid]
        reg2 == IF pid # NoneVal /\ entry.kind = "dict" /\ pid \notin DOMAIN entry.classes
                THEN [reg1 EXCEPT ![sid].classes = MapPut(@, pid, NoClasses)]
                ELSE reg1
        index == ClassIndex(response)
    IN
    IF pid = NoneVal /\ entry.kind # "list"
    THEN [reg |-> reg1, raised |-> "AssertionError"]
    ELSE IF pid # NoneVal /\ entry.kind # "dict"
    THEN [reg |-> reg1, raised |-> "AssertionError"]
    ELSE IF ~override /\ reg2[sid].classes[pid][index] # "None"
    THEN [reg |-> reg2, raised |-> "AssertionError"]
    ELSE [reg |-> [reg2 EXCEPT ![sid].classes[pid][index] = message_class],
          raised |-> "none"]

\* b & ~OBD_RESPONSE_BIT and (b & OBD_RESPONSE_BIT) != 0
ResponseBit(b) == (b \div 64) % 2 = 1
ClearResponseBit(b) == IF ResponseBit(b) THEN b - 64 ELSE b

\* create: the class it instantiates with which offset and PID, or the
\* exception it raises.  data is bus_message.data_bytes; the default offset
\* BusMessage.PID is the second byte
create_class(reg, data) ==
    LET Fail(exc) == [raised |-> exc, class |-> "none", offset |-> NoneVal, pid |-> NoneVal]
        Make(c, o, p) == [raised |-> "none", class |-> c, offset |-> o, pid |-> p]
    IN
    IF data = <<>> THEN Fail("IndexError")
    ELSE IF data[1] = NoneVal THEN Fail("TypeError")
    ELSE LET sid == ClearResponseBit(data[1])
             index == ClassIndex(ResponseBit(data[1]))
         IN
         IF sid \notin DOMAIN reg THEN Make("Message", 1, NoneVal)
         ELSE IF reg[sid].kind = "dict"
         THEN IF Len(data) < 2 THEN Fail("IndexError")
              ELSE IF data[2] \notin DOMAIN reg[sid].classes
              THEN Make("Message", 2, data[2])
              ELSE IF reg[sid].classes[data[2]][index] = "None"
              THEN Fail("TypeError")
              ELSE Make(reg[sid].classes[data[2]][index], 2, data[2])
         ELSE IF reg[sid].classes[NoneVal][index] = "None"
         THEN Fail("TypeError")
         ELSE Make(reg[sid].classes[NoneVal][index], 1, NoneVal)

(***************************************************************************)
(* The vehicle side: ECU e answers with a message of L bytes, split into   *)
(* ISO 15765-2 frames (Single Frame, or First Frame + Consecutive Frames   *)
(* numbered modulo 16), optionally padded to 8 data bytes.                 *)
(***************************************************************************)
ECUs == {0, 1}
Header(e) == <<0, 0, 7, 232 + e>>
MsgByte(e, j) == (e * 101 + j + 16) % 256
MessageBytes(e, L) == [j \in 1..L |-> MsgByte(e, j)]
NumFrames(L) == IF L <= 7 THEN 1 ELSE 1 + ((L - 6) + 6) \div 7
Min2(a, b) == IF a < b THEN a ELSE b

FrameData(e, L, pad, i) ==
    LET M == MessageBytes(e, L)
        body == IF NumFrames(L) = 1 THEN <<L>> \o M
                ELSE IF i = 0 THEN <<16 + (L \div 256), L % 256>> \o SubSeq(M, 1, 6)
                ELSE <<32 + (i % 16)>> \o SubSeq(M, 7 * i, Min2(L, 7 * i + 6))
    IN  body \o (IF pad THEN [j \in 1..(8 - Len(body)) |-> 0] ELSE <<>>)

\* the raw byte vector the interface hands to the reassembler
RawFrame(e, L, pad, i) == Header(e) \o FrameData(e, L, pad, i)

\* the shortest and the longest message of n frames
MinLen(n) == IF n = 1 THEN 1 ELSE IF n = 2 THEN 8 ELSE 7 * n - 7
MaxLen(n) == IF n = 1 THEN 7 ELSE 7 * n - 1
LensOf(counts) == UNION {{MinLen(n), MaxLen(n)} : n \in counts}
MsgSpecs(counts) == [len : LensOf(counts), pad : BOOLEAN]

\* a response: which ECUs answer with what, whether the bus keeps each
\* ECU's frames in order, and whether frames may be lost
Scenario(ecuSets, counts, ordered, lossy) ==
    {[msgs |-> m, ordered |-> ordered, lossy |-> lossy] :
        m \in UNION {[S -> MsgSpecs(counts)] : S \in ecuSets}}

\* responses explored for the reassembly engine alone
ReassemblyScenarios ==
    Scenario({{0}}, 1..MaxPermFrames, FALSE, FALSE)
    \cup Scenario({{0, 1}}, {1, 2, MaxOrderedFrames}, TRUE, FALSE)
    \cup Scenario({{0}, {0, 1}}, 1..MaxDropFrames, TRUE, TRUE)

\* responses explored within the interface life cycle
RequestScenarios ==
    Scenario({{0}, {0, 1}}, {2}, TRUE, TRUE)

\* responses to the 0100 of connect_to_vehicle
ConnectScenarios ==
    Scenario({{0}}, {1}, TRUE, FALSE)

NoBus == [msgs |-> EmptyMap, ordered |-> TRUE, lossy |-> FALSE]

(***************************************************************************)
(* State                                                                   *)
(***************************************************************************)
vars == <<interface_configured, connected_to_vehicle, vehicle_protocol,
          protocol_response, token, frames_received, complete_messages, pc,
          call, outcome, written, bus, arrived, lost, processed,
          completion_log, last_rrc, consumed, session_ok, reply,
          flow_control, port, now, rd, search, probe, registry, msg>>

ifaceVars == <<interface_configured, connected_to_vehicle, vehicle_protocol,
               protocol_response>>
tokenVars == <<token, last_rrc, consumed>>
reasmVars == <<frames_received, complete_messages>>
busVars == <<bus, arrived, lost, processed, completion_log>>
decodeVars == <<registry, msg>>
standVars == <<port, now, rd, search, probe, decodeVars>>

Tokens == 0..MaxToken
NoReply == [first |-> <<>>, lines |-> <<>>, rest |-> "none", drained |-> FALSE,
            atdpn |-> "none"]
NoFlowControl == [header |-> <<>>, arrived |-> FALSE]
\* SerialPort.__init__: 38400 baud, pyserial timeout 2 s, interval 2 s; the
\* deadline attribute exists only after set_timeout
NewPort == [baudrate |-> 38400, deadline |-> NoneVal, interval |-> 2000,
            read_timeout |-> 2000]
NoRead == [state |-> "none"]
NoSearch == [state |-> "none"]
NoProbe == [state |-> "none"]
NoArrivals == [e \in ECUs |-> {}]
NotProcessed == [returned |-> FALSE, messages |-> <<>>]
Call(op, sid, tok, rtype) ==
    [op |-> op, sid |-> sid, token_arg |-> tok, response_type |-> rtype]
Outcome(raised, tok, result) ==
    [raised |-> raised, token |-> tok, result |-> result]
Returned == Outcome("none", NoneVal, <<>>)
Raised(exc) == Outcome(exc, NoneVal, <<>>)

Init ==
    /\ interface_configured = FALSE
    /\ connected_to_vehicle = FALSE
    /\ vehicle_protocol = "unset"
    /\ protocol_response = "None"
    /\ token = NoneVal
    /\ frames_received = EmptyMap
    /\ complete_messages = <<>>
    /\ pc = "idle"
    /\ call = Call("init", NoneVal, NoneVal, "none")
    /\ outcome = Returned
    /\ written = <<>>
    /\ bus = NoBus
    /\ arrived = NoArrivals
    /\ lost = NoArrivals
    /\ processed = NotProcessed
    /\ completion_log = <<>>
    /\ last_rrc = NoneVal
    /\ consumed = NoneVal
    /\ session_ok = FALSE
    /\ reply = NoReply
    /\ flow_control = NoFlowControl
    /\ port = NewPort
    /\ now = 0
    /\ registry = BuiltinRegistry
    /\ msg = NoMsg
    /\ rd = NoRead
    /\ search = NoSearch
    /\ probe = NoProbe


(***************************************************************************)
(* obd/interface/elm.py: open, close, connect, disconnect                  *)
(***************************************************************************)
\* reset() (ATWS), then ATE0, ATL0, ATH1
OpenCommands == <<"ATWS", "ATE0", "ATL0", "ATH1">>

\* open without the finally clause: the flag set at entry stays
open_no_finally(cfg, fail) ==
    IF cfg THEN [configured |-> TRUE, written |-> <<>>, raised |-> "none"]
    ELSE [configured |-> TRUE,
          written |-> IF fail = 0 THEN OpenCommands
                      ELSE SubSeq(OpenCommands, 1, fail),
          raised |-> IF fail = 0 THEN "none" ELSE "Timeout"]

\* ELM32X.open on an interface whose flag is cfg; fail = 0 when every command
\* is answered, k when the k-th command raises (timeout while reading the
\* prompt) after being written
open(cfg, fail) ==
    IF cfg THEN [configured |-> TRUE, written |-> <<>>, raised |-> "none"]
    ELSE [configured |-> (fail = 0),
          written |-> IF fail = 0 THEN OpenCommands
                      ELSE SubSeq(OpenCommands, 1, fail),
          raised |-> IF fail = 0 THEN "none" ELSE "Timeout"]

Idle == pc = "idle"

\* what is recorded of the response of the previous operation is dropped
NoResponse ==
    /\ bus' = NoBus
    /\ arrived' = NoArrivals
    /\ lost' = NoArrivals
    /\ processed' = NotProcessed
    /\ completion_log' = <<>>
    /\ reply' = NoReply
    /\ flow_control' = NoFlowControl

Open(fail) ==
    /\ Idle
    /\ UNCHANGED standVars
    /\ LET r == open(interface_configured, fail) IN
        /\ interface_configured' = r.configured
        /\ written' = r.written
        /\ outcome' = Raised(r.raised)
    /\ call' = Call("open", NoneVal, NoneVal, "none")
    /\ UNCHANGED <<connected_to_vehicle, vehicle_protocol, protocol_response,
                   pc, session_ok>>
    /\ NoResponse
    /\ UNCHANGED <<tokenVars, reasmVars>>

\* ELM32X.close: reset(quick=False) writes ATZ, then detect_baudrate probes
Close ==
    /\ Idle
    /\ UNCHANGED standVars
    /\ written' = IF interface_configured THEN <<"ATZ", "7F7F">> ELSE <<>>
    /\ outcome' = Returned
    /\ call' = Call("close", NoneVal, NoneVal, "none")
    /\ NoResponse
    /\ UNCHANGED <<ifaceVars, pc, session_ok, tokenVars, reasmVars>>

\* ELM32X.disconnect_from_vehicle; ok = the ATPC command is answered
DisconnectFromVehicle(ok) ==
    /\ Idle
    /\ UNCHANGED standVars
    /\ call' = Call("disconnect_from_vehicle", NoneVal, NoneVal, "none")
    /\ IF ~connected_to_vehicle
       THEN \* raise CommandNotSupported(...): the name is not defined in elm.py
            /\ outcome' = Raised("NameError")
            /\ written' = <<>>
            /\ UNCHANGED <<connected_to_vehicle, session_ok>>
       ELSE IF ~interface_configured
       THEN /\ outcome' = Raised("AssertionError")
            /\ written' = <<>>
            /\ UNCHANGED <<connected_to_vehicle, session_ok>>
       ELSE /\ written' = <<"ATPC">>
            /\ outcome' = IF ok THEN Returned ELSE Raised("Timeout")
            /\ connected_to_vehicle' = IF ok THEN FALSE ELSE connected_to_vehicle
            /\ session_ok' = IF ok THEN FALSE ELSE session_ok
    /\ UNCHANGED <<interface_configured, vehicle_protocol, protocol_response, pc>>
    /\ NoResponse
    /\ UNCHANGED <<tokenVars, reasmVars>>

\* the answers of the scan tool to ATDPN that are explored
ProtocolAnswers == {"6", "A6", "7", "B"}
\* ELM327.get_protocol: strip the automatic-mode prefix
StripAuto(answer) == IF answer = "A6" THEN "6" ELSE answer
\* ELM327._supported_protocols: the protocol of each ATTP/ATDPN number
ElmProtocols ==
    [k \in {"0", "1", "2", "3", "4", "5", "6", "7", "8", "9", "A"} |->
        CASE k = "0" -> "None"
          [] k = "1" -> "PWM"
          [] k = "2" -> "VPW"
          [] k = "3" -> "ISO9141_2"
          [] k = "4" -> "ISO14230_4 5BAUD"
          [] k = "5" -> "ISO14230_4 FAST"
          [] k = "6" -> "ISO15765_4 11/500"
          [] k = "7" -> "ISO15765_4 29/500"
          [] k = "8" -> "ISO15765_4 11/250"
          [] k = "9" -> "ISO15765_4 29/250"
          [] k = "A" -> "SAE_J1939 29/250"]
\* the answers for which _supported_protocols[response] raises no KeyError
SupportedAnswers == DOMAIN ElmProtocols

\* a get_protocol that caches the answer and never compares
get_protocol_unchecked(cache, answer) ==
    LET response == StripAuto(answer) IN
    IF answer = "timeout" THEN [raised |-> "Timeout", cache |-> cache, result |-> <<>>]
    ELSE IF response \notin SupportedAnswers
    THEN [raised |-> "InterfaceError", cache |-> cache, result |-> <<>>]
    ELSE [raised |-> "none", cache |-> response, result |-> <<response>>]

\* ELM327.get_protocol on a connected interface: answer is the reply to
\* ATDPN ("timeout" if none arrives), cache is _protocol_response
get_protocol(cache, answer) ==
    LET response == StripAuto(answer) IN
    IF answer = "timeout" THEN [raised |-> "Timeout", cache |-> cache, result |-> <<>>]
    ELSE IF response \notin SupportedAnswers
    THEN [raised |-> "InterfaceError", cache |-> cache, result |-> <<>>]
    ELSE IF cache = "None"
    THEN [raised |-> "none", cache |-> response, result |-> <<response>>]
    ELSE IF response # cache
    THEN [raised |-> "InterfaceError", cache |-> cache, result |-> <<>>]
    ELSE [raised |-> "none", cache |-> cache, result |-> <<response>>]

\* a call of get_protocol by the application
GetProtocol(answer) ==
    /\ Idle
    /\ UNCHANGED standVars
    /\ call' = Call("get_protocol", NoneVal, NoneVal, "none")
    /\ bus' = NoBus
    /\ arrived' = NoArrivals
    /\ lost' = NoArrivals
    /\ processed' = NotProcessed
    /\ completion_log' = <<>>
    /\ flow_control' = NoFlowControl
    /\ IF ~connected_to_vehicle
       THEN \* raise CommandNotSupported(...): not defined in elm.py
            /\ outcome' = Raised("NameError")
            /\ written' = <<>>
            /\ reply' = NoReply
            /\ UNCHANGED protocol_response
       ELSE IF ~interface_configured
       THEN /\ outcome' = Raised("AssertionError")
            /\ written' = <<>>
            /\ reply' = NoReply
            /\ UNCHANGED protocol_response
       ELSE LET g == get_protocol(protocol_response, answer) IN
            /\ written' = <<"ATDPN">>
            /\ reply' = [NoReply EXCEPT !.atdpn = answer]
            /\ outcome' = Outcome(g.raised, NoneVal, g.result)
            /\ protocol_response' = g.cache
    /\ UNCHANGED <<interface_configured, connected_to_vehicle, vehicle_protocol,
                   pc, session_ok, tokenVars, reasmVars>>

(***************************************************************************)
(* The text of the scan tool: a line is the sequence of its words          *)
(***************************************************************************)
StartsWith(line, prefix) ==
    Len(line) >= Len(prefix) /\ SubSeq(line, 1, Len(prefix)) = prefix
EndsWith(line, suffix) ==
    /\ Len(line) >= Len(suffix)
    /\ SubSeq(line, Len(line) - Len(suffix) + 1, Len(line)) = suffix
Contains(line, part) ==
    \E i \in 1..(Len(line) - Len(part) + 1) :
        SubSeq(line, i, i + Len(part) - 1) = part

Searching == <<"SEARCHING...">>
DataLine == <<"7E8", "06", "41", "00">>
\* the first lines of the answer to 0100 that are explored
FirstLines ==
    {<<"UNABLE", "TO", "CONNECT">>, <<"CAN", "ERROR">>, <<"NO", "DATA">>,
     <<"STOPPED">>, <<"BUS", "INIT:", "ERROR">>, <<"BUS", "INIT:", "...", "ERROR">>,
     <<"BUS", "INIT:", "OK">>, <<"?">>, DataLine}
\* the answers to 0100: a first line, or SEARCHING... and then that line
ConnectTexts == {<<l>> : l \in FirstLines} \cup {<<Searching, l>> : l \in FirstLines}
\* how the rest of a refused answer arrives: up to the prompt, not at all,
\* or with a line that starts with STOPPED
DrainOutcomes == {"prompt", "timeout", "stopped"}

\* a classification that does not know NO DATA
connect_failure_without_no_data(line) ==
    IF StartsWith(line, <<"STOPPED">>) THEN "InterfaceBusy"
    ELSE IF EndsWith(line, <<"UNABLE", "TO", "CONNECT">>) \/ EndsWith(line, <<"ERROR">>)
    THEN "ConnectionError"
    ELSE IF StartsWith(line, <<"BUS", "INIT:">>) /\ ~EndsWith(line, <<"OK">>)
    THEN "ConnectionError"
    ELSE "none"

\* ELM32X.connect_to_vehicle, "Handle connection failures": the exception the
\* first complete line raises, or "none"
connect_failure(line) ==
    IF StartsWith(line, <<"STOPPED">>) THEN "InterfaceBusy"
    ELSE IF EndsWith(line, <<"UNABLE", "TO", "CONNECT">>) \/ EndsWith(line, <<"ERROR">>)
    THEN "ConnectionError"
    ELSE IF StartsWith(line, <<"BUS", "INIT:">>) /\ ~EndsWith(line, <<"OK">>)
    THEN "ConnectionError"
    ELSE IF line = <<"NO", "DATA">> THEN "ConnectionError"
    ELSE "none"

\* the loop that reads a complete line: SEARCHING... is swallowed
first_line(text) == IF text[1] = Searching THEN text[2] ELSE text[1]
\* a status line (BUS INIT: ...) is not part of the response
status_line(line) == StartsWith(line, <<"BUS", "INIT:">>)

\* ELM32X._static_read_until_prompt after a refused answer: what it raises
\* (InterfaceBusy is a name elm.py does not define)
drain(rest) ==
    IF rest = "prompt" THEN "none"
    ELSE IF rest = "timeout" THEN "Timeout"
    ELSE "NameError"

(***************************************************************************)
(* obd/interface/elm.py: _read_response                                    *)
(***************************************************************************)
\* the words that match ERR\d\d
ErrWords == {"ERR94", "ERR01"}
ErrWordIn(line) ==
    CHOOSE w \in ErrWords :
        /\ \E i \in 1..Len(line) : line[i] = w
        /\ \A i \in 1..Len(line) : line[i] \in ErrWords =>
              \E j \in 1..i : line[j] = w /\ \A k \in 1..(j - 1) : line[k] \notin ErrWords

\* the body of the loop of ELM32X._read_response: what one line raises.
\* CommandNotSupported and BufferOverflowError are names elm.py does not
\* define (NameError); BusError.__init__ takes no keyword raw (TypeError)
read_response_line(line) ==
    IF line = <<"?">> THEN "NameError"
    ELSE IF line = <<"NO", "DATA">> THEN "DataError"
    ELSE IF EndsWith(line, <<"BUS", "BUSY">>) \/ EndsWith(line, <<"DATA", "ERROR">>)
    THEN "DataError"
    ELSE IF \/ EndsWith(line, <<"BUS", "ERROR">>) \/ EndsWith(line, <<"FB", "ERROR">>)
            \/ EndsWith(line, <<"LV", "RESET">>)
    THEN "TypeError"
    ELSE IF EndsWith(line, <<"CAN", "ERROR">>) \/ EndsWith(line, <<"RX", "ERROR">>)
    THEN "ProtocolError"
    ELSE IF EndsWith(line, <<"BUFFER", "FULL">>) THEN "NameError"
    ELSE IF Contains(line, <<"<", "DATA", "ERROR">>) THEN "DataError"
    ELSE IF \E i \in 1..Len(line) : line[i] \in ErrWords
    THEN (IF ErrWordIn(line) = "ERR94" THEN "TypeError" ELSE "ELM32XError")
    ELSE "none"

\* ELM32X._read_response: the exception of the first line that raises
read_response(lines) ==
    IF \E i \in 1..Len(lines) : read_response_line(lines[i]) # "none"
    THEN read_response_line(lines[
             CHOOSE i \in 1..Len(lines) :
                 /\ read_response_line(lines[i]) # "none"
                 /\ \A j \in 1..(i - 1) : read_response_line(lines[j]) = "none"])
    ELSE "none"

\* the lines of a response that are explored when _read_response is taken
\* alone: one line for each pattern of the loop and two ordinary frames
ResponseLines ==
    { <<"?">>, <<"NO", "DATA">>, <<"BUS", "BUSY">>, <<"7E8", "DATA", "ERROR">>,
      <<"BUS", "ERROR">>, <<"FB", "ERROR">>, <<"LV", "RESET">>,
      <<"CAN", "ERROR">>, <<"RX", "ERROR">>, <<"BUFFER", "FULL">>,
      <<"7E8", "06", "<", "DATA", "ERROR", "41">>, <<"ERR94">>, <<"ERR01">>,
      DataLine, <<"7E9", "06", "41", "00">> }
MaxResponseLines == 2
Responses ==
    UNION { [1..n -> ResponseLines] : n \in 1..MaxResponseLines }

\* the interface has read a response up to the prompt
InitResponse ==
    /\ interface_configured = TRUE
    /\ connected_to_vehicle = TRUE
    /\ vehicle_protocol = "6"
    /\ protocol_response = "6"
    /\ pc = "idle"
    /\ session_ok = TRUE
    /\ token = NoneVal
    /\ last_rrc = NoneVal
    /\ consumed = NoneVal
    /\ call = Call("init", NoneVal, NoneVal, "none")
    /\ outcome = Returned
    /\ written = <<>>
    /\ bus = NoBus
    /\ arrived = NoArrivals
    /\ lost = NoArrivals
    /\ frames_received = EmptyMap
    /\ complete_messages = <<>>
    /\ processed = NotProcessed
    /\ completion_log = <<>>
    /\ \E lines \in Responses : reply = [NoReply EXCEPT !.lines = lines]
    /\ flow_control = NoFlowControl
    /\ port = NewPort
    /\ now = 0
    /\ registry = BuiltinRegistry
    /\ msg = NoMsg
    /\ rd = NoRead
    /\ search = NoSearch
    /\ probe = NoProbe

\* ELM32X._read_response on the lines read: raises for the first line that
\* matches, returns the lines otherwise
ReadResponse ==
    /\ call.op = "init"
    /\ call' = Call("_read_response", NoneVal, NoneVal, "none")
    /\ outcome' = IF read_response(reply.lines) # "none"
                  THEN Raised(read_response(reply.lines))
                  ELSE Outcome("none", NoneVal, reply.lines)
    /\ UNCHANGED <<ifaceVars, pc, session_ok, tokenVars, reasmVars, standVars,
                   written, bus, arrived, lost, processed, completion_log,
                   reply, flow_control>>

SpecResponse == InitResponse /\ [][ReadResponse]_vars

\* the response texts explored within the interface life cycle
SmallResponses == {<<DataLine>>, <<<<"NO", "DATA">>>>, <<DataLine, <<"?">>>>}

\* ELM32X.connect_to_vehicle up to the processing of the response to 0100.
\* fail: as in open.  text: the answer to 0100 up to its first complete line
ConnectToVehicle(fail) ==
    /\ Idle
    /\ UNCHANGED standVars
    /\ call' = Call("connect_to_vehicle", NoneVal, NoneVal, "none")
    /\ flow_control' = NoFlowControl
    /\ arrived' = NoArrivals
    /\ lost' = NoArrivals
    /\ processed' = NotProcessed
    /\ completion_log' = <<>>
    /\ UNCHANGED <<session_ok, tokenVars, reasmVars>>
    /\ LET o == open(interface_configured, fail) IN
        /\ interface_configured' = o.configured
        /\ IF o.raised # "none"
           THEN /\ outcome' = Raised(o.raised)
                /\ written' = o.written
                /\ bus' = NoBus
                /\ reply' = NoReply
                /\ UNCHANGED <<connected_to_vehicle, vehicle_protocol,
                               protocol_response, pc>>
           ELSE IF connected_to_vehicle
           THEN \* raise CommandNotSupported(...): not defined in elm.py
                /\ outcome' = Raised("NameError")
                /\ written' = o.written
                /\ bus' = NoBus
                /\ reply' = NoReply
                /\ UNCHANGED <<connected_to_vehicle, vehicle_protocol,
                               protocol_response, pc>>
           ELSE \/ \* no complete line arrives: ReadTimeout becomes
                   \* InterfaceError, IntervalTimeout is not caught
                   \E exc \in {"InterfaceError", "IntervalTimeout"} :
                     /\ outcome' = Raised(exc)
                     /\ written' = o.written \o <<"0100">>
                     /\ protocol_response' = "None"
                     /\ bus' = NoBus
                     /\ reply' = NoReply
                     /\ UNCHANGED <<connected_to_vehicle, vehicle_protocol, pc>>
                \/ \E text \in ConnectTexts :
                     LET line == first_line(text) IN
                     IF connect_failure(line) # "none"
                     THEN \* swallow the rest of the response, then raise
                          \E rest \in DrainOutcomes :
                            /\ outcome' = Raised(IF drain(rest) = "none"
                                                 THEN connect_failure(line)
                                                 ELSE drain(rest))
                            /\ written' = o.written \o <<"0100">>
                            /\ protocol_response' = "None"
                            /\ bus' = NoBus
                            /\ reply' = [first |-> line, lines |-> <<>>,
                                         rest |-> rest,
                                         drained |-> (drain(rest) = "none"),
                                         atdpn |-> "none"]
                            /\ UNCHANGED <<connected_to_vehicle, vehicle_protocol, pc>>
                     ELSE \E rest \in SmallResponses \cup {<<>>} :
                          LET lines == (IF status_line(line) THEN <<>> ELSE <<line>>)
                                       \o rest IN
                          /\ lines # <<>>
                          /\ IF read_response(lines) # "none"
                             THEN /\ outcome' = Raised(read_response(lines))
                                  /\ written' = o.written \o <<"0100">>
                                  /\ protocol_response' = "None"
                                  /\ bus' = NoBus
                                  /\ reply' = [first |-> line, lines |-> lines,
                                               rest |-> "prompt", drained |-> TRUE, atdpn |-> "none"]
                                  /\ UNCHANGED <<connected_to_vehicle,
                                                 vehicle_protocol, pc>>
                             ELSE \* connected_to_vehicle = True, then get_protocol()
                                  /\ written' = o.written \o <<"0100", "ATDPN">>
                                  /\ connected_to_vehicle' = TRUE
                                  /\ \/ /\ outcome' = Raised("Timeout")
                                        /\ protocol_response' = "None"
                                        /\ bus' = NoBus
                                        /\ reply' = [first |-> line, lines |-> lines,
                                                     rest |-> "prompt", drained |-> TRUE, atdpn |-> "none"]
                                        /\ UNCHANGED <<vehicle_protocol, pc>>
                                     \/ \E answer \in ProtocolAnswers :
                                        /\ reply' = [first |-> line, lines |-> lines,
                                                     rest |-> "prompt", drained |-> TRUE, atdpn |-> answer]
                                        /\ IF StripAuto(answer) \notin SupportedAnswers
                                           THEN /\ outcome' = Raised("InterfaceError")
                                                /\ protocol_response' = "None"
                                                /\ bus' = NoBus
                                                /\ UNCHANGED <<vehicle_protocol, pc>>
                                           ELSE /\ outcome' = Returned
                                                /\ protocol_response' = StripAuto(answer)
                                                /\ vehicle_protocol' = StripAuto(answer)
                                                /\ pc' = "reading"
                                                /\ bus' \in ConnectScenarios

(***************************************************************************)
(* obd/interface/base.py: the reset guard and send_request                 *)
(***************************************************************************)
\* a guard that accepts any token that is not None or 0
verify_token_any(tok, stored) == ~(tok = NoneVal \/ tok = 0)

\* Interface._verify_token returns (instead of raising) iff
\* not (not token or token != self._token)
verify_token(tok, stored) == ~(tok = NoneVal \/ tok = 0) /\ tok = stored

\* the requests explored: OBDRequest(sid=0x01, pid=0x00) and OBDRequest(sid=0x04)
Requests == {[bytes |-> <<1, 0>>, ascii |-> "01 00"],
             [bytes |-> <<4>>, ascii |-> "04"]}

\* Interface._return_raw_frames; a placeholder makes it raise DataError, a
\* name base.py never imports
return_raw_frames(raw_frames) ==
    IF \E i \in 1..Len(raw_frames) :
           \E j \in 1..Len(raw_frames[i]) : raw_frames[i][j] = NoneVal
    THEN Raised("NameError")
    ELSE Outcome("none", NoneVal, raw_frames)

\* Interface._return_bus_messages
return_bus_messages(msgs) ==
    IF \E i \in 1..Len(msgs) : msgs[i].incomplete
    THEN Raised("NameError")
    ELSE Outcome("none", NoneVal, msgs)

\* Interface._return_obd_responses
return_obd_responses(msgs) ==
    IF \E i \in 1..Len(msgs) : create_raises(msgs[i]) # "none"
    THEN Raised(create_raises(msgs[
             CHOOSE i \in 1..Len(msgs) :
                 /\ create_raises(msgs[i]) # "none"
                 /\ \A j \in 1..(i - 1) : create_raises(msgs[j]) = "none"]))
    ELSE LET obd_messages == [i \in 1..Len(msgs) |-> create(msgs[i])] IN
         IF \E i \in 1..Len(msgs) : obd_messages[i].incomplete
         THEN Raised("NameError")
         ELSE Outcome("none", NoneVal, obd_messages)

ResponseTypes == {"raw_frames", "bus_messages", "obd_responses"}

FrameIds(scenario, e) == 0..(NumFrames(scenario.msgs[e].len) - 1)

RECURSIVE RawFramesOf(_, _, _)
RawFramesOf(scenario, e, i) ==
    IF i \notin FrameIds(scenario, e) THEN <<>>
    ELSE <<RawFrame(e, scenario.msgs[e].len, scenario.msgs[e].pad, i)>>
         \o RawFramesOf(scenario, e, i + 1)

\* the response as a list of raw frames, ECU after ECU
RawFrames(scenario) ==
    (IF 0 \in DOMAIN scenario.msgs THEN RawFramesOf(scenario, 0, 0) ELSE <<>>)
    \o (IF 1 \in DOMAIN scenario.msgs THEN RawFramesOf(scenario, 1, 0) ELSE <<>>)

\* Interface.send_request with ELM32X._send_obd_message, up to the
\* processing of the response
SendRequest(req, tok, rtype) ==
    /\ Idle
    /\ UNCHANGED standVars
    /\ call' = Call("send_request", req.bytes[1], tok, rtype)
    /\ reply' = NoReply
    /\ flow_control' = NoFlowControl
    /\ arrived' = NoArrivals
    /\ lost' = NoArrivals
    /\ processed' = NotProcessed
    /\ completion_log' = <<>>
    /\ UNCHANGED <<ifaceVars, session_ok, reasmVars>>
    /\ IF ~interface_configured \/ ~connected_to_vehicle
       THEN /\ outcome' = Raised("AssertionError")
            /\ written' = <<>>
            /\ bus' = NoBus
            /\ UNCHANGED <<tokenVars, pc>>
       ELSE IF vehicle_protocol = "unset"
       THEN /\ outcome' = Raised("AttributeError")
            /\ written' = <<>>
            /\ bus' = NoBus
            /\ UNCHANGED <<tokenVars, pc>>
       ELSE IF req.bytes[1] = 4 /\ ~verify_token(tok, token)
       THEN \* ResetRequiresConfirmation draws random.randint(0, 0xFFFFFFFF)
            \E t \in Tokens :
              /\ outcome' = Outcome("ResetRequiresConfirmation", t, <<>>)
              /\ written' = <<>>
              /\ token' = t
              /\ last_rrc' = t
              /\ consumed' = NoneVal
              /\ bus' = NoBus
              /\ UNCHANGED pc
       ELSE /\ written' = <<req.ascii>>
            /\ consumed' = IF req.bytes[1] = 4 THEN tok ELSE consumed
            /\ UNCHANGED <<token, last_rrc>>
            /\ \/ \* _read_response raises (NO DATA)
                  /\ outcome' = Raised("DataError")
                  /\ bus' = NoBus
                  /\ UNCHANGED pc
               \/ \E scenario \in RequestScenarios :
                    IF rtype = "raw_frames"
                    THEN /\ outcome' = return_raw_frames(RawFrames(scenario))
                         /\ bus' = NoBus
                         /\ UNCHANGED pc
                    ELSE /\ outcome' = Returned
                         /\ pc' = "reading"
                         /\ bus' = scenario

(***************************************************************************)
(* Interface._process_obd_response: one _received_obd_frame per frame in   *)
(* arrival order, then _flush_frames and the draining of the queue         *)
(***************************************************************************)
Reading == pc = "reading"
PendingFrames(e) ==
    IF e \in DOMAIN bus.msgs THEN FrameIds(bus, e) \ (arrived[e] \cup lost[e])
    ELSE {}
\* the frame ECU e puts on the bus next
IsNext(e, i) == i \in PendingFrames(e) /\ \A j \in PendingFrames(e) : i <= j

ReceiveFrame(e, i) ==
    /\ Reading
    /\ UNCHANGED <<standVars, reply, flow_control>>
    /\ i \in PendingFrames(e)
    /\ bus.ordered => IsNext(e, i)
    /\ LET r == received_obd_frame(frames_received, complete_messages,
                    RawFrame(e, bus.msgs[e].len, bus.msgs[e].pad, i)) IN
        /\ frames_received' = r.fr
        /\ complete_messages' = r.queue
        /\ completion_log' = IF Len(r.queue) > Len(complete_messages)
                             THEN Append(completion_log, Header(e))
                             ELSE completion_log
        /\ IF r.raised = "none"
           THEN UNCHANGED <<pc, outcome>>
           ELSE /\ pc' = "idle"
                /\ outcome' = Raised(r.raised)
    /\ arrived' = [arrived EXCEPT ![e] = @ \cup {i}]
    /\ UNCHANGED <<ifaceVars, tokenVars, call, written, bus, lost,
                   processed, session_ok>>

\* a frame is lost on the bus; at least one frame of the response arrives
LoseFrame(e, i) ==
    /\ Reading
    /\ UNCHANGED <<standVars, reply, flow_control>>
    /\ bus.lossy
    /\ i \in PendingFrames(e)
    /\ bus.ordered => IsNext(e, i)
    /\ \E e2 \in ECUs : arrived[e2] # {} \/ PendingFrames(e2) \ {IF e2 = e THEN i ELSE -1} # {}
    /\ lost' = [lost EXCEPT ![e] = @ \cup {i}]
    /\ UNCHANGED <<ifaceVars, tokenVars, reasmVars, pc, call, outcome, written,
                   bus, arrived, processed, completion_log, session_ok>>

\* the end of the response: flush, drain the queue, and return to the caller
\* (connect_to_vehicle, or send_request in the mode it was called with)
FinishResponse(order) ==
    /\ Reading
    /\ UNCHANGED <<standVars, reply, flow_control>>
    /\ \A e \in ECUs : PendingFrames(e) = {}
    /\ flow_control.header # <<>> => flow_control.arrived
    /\ order \in KeyOrders(frames_received)
    /\ pc' = "idle"
    /\ frames_received' = flush_frames(frames_received, complete_messages, order).fr
    /\ LET f == flush_frames(frames_received, complete_messages, order) IN
       IF f.raised # "none"
       THEN /\ complete_messages' = f.queue
            /\ outcome' = Raised(f.raised)
            /\ UNCHANGED <<processed, session_ok>>
       ELSE /\ complete_messages' = <<>>
            /\ processed' = [returned |-> TRUE, messages |-> f.queue]
            /\ IF call.op = "connect_to_vehicle"
               THEN /\ outcome' = Returned
                    /\ session_ok' = TRUE
               ELSE /\ outcome' = IF call.response_type = "bus_messages"
                                  THEN return_bus_messages(f.queue)
                                  ELSE return_obd_responses(f.queue)
                    /\ UNCHANGED session_ok
    /\ UNCHANGED <<ifaceVars, tokenVars, call, written, bus, arrived, lost,
                   completion_log>>

Process ==
    \/ \E e \in ECUs : \E i \in 0..MaxOrderedFrames : ReceiveFrame(e, i)
    \/ \E e \in ECUs : \E i \in 0..MaxOrderedFrames : LoseFrame(e, i)
    \/ \E order \in KeyOrders(frames_received) : FinishResponse(order)

Next ==
    \/ \E fail \in 0..Len(OpenCommands) : Open(fail)
    \/ Close
    \/ \E ok \in BOOLEAN : DisconnectFromVehicle(ok)
    \/ \E fail \in 0..Len(OpenCommands) : ConnectToVehicle(fail)
    \/ \E answer \in ProtocolAnswers \cup {"timeout"} : GetProtocol(answer)
    \/ \E req \in Requests : \E rtype \in ResponseTypes :
         \E tok \in (IF req.bytes[1] = 4 THEN Tokens ELSE {}) \cup {NoneVal} :
           SendRequest(req, tok, rtype)
    \/ Process

Spec == Init /\ [][Next]_vars

(***************************************************************************)
(* The reassembly engine alone: a connected interface processing one       *)
(* response                                                                *)
(***************************************************************************)
InitReasm ==
    /\ interface_configured = TRUE
    /\ connected_to_vehicle = TRUE
    /\ vehicle_protocol = "6"
    /\ protocol_response = "6"
    /\ token = NoneVal
    /\ frames_received = EmptyMap
    /\ complete_messages = <<>>
    /\ pc = "reading"
    /\ call \in {Call("send_request", 1, NoneVal, rtype) :
                    rtype \in {"bus_messages"}}
    /\ outcome = Returned
    /\ written = <<"01 00">>
    /\ bus \in ReassemblyScenarios
    /\ arrived = NoArrivals
    /\ lost = NoArrivals
    /\ processed = NotProcessed
    /\ completion_log = <<>>
    /\ last_rrc = NoneVal
    /\ consumed = NoneVal
    /\ session_ok = TRUE
    /\ reply = NoReply
    /\ flow_control = NoFlowControl
    /\ port = NewPort
    /\ now = 0
    /\ registry = BuiltinRegistry
    /\ msg = NoMsg
    /\ rd = NoRead
    /\ search = NoSearch
    /\ probe = NoProbe

SpecReasm == InitReasm /\ [][Process]_vars

(***************************************************************************)
(* The responses whose frames arrive in order and complete: one ECU or     *)
(* two, each with a message of two frames or of MaxOrderedFrames           *)
(***************************************************************************)
OrderedScenarios == Scenario({{0}, {0, 1}}, {2, MaxOrderedFrames}, TRUE, FALSE)

InitOrdered ==
    /\ interface_configured = TRUE
    /\ connected_to_vehicle = TRUE
    /\ vehicle_protocol = "6"
    /\ protocol_response = "6"
    /\ token = NoneVal
    /\ frames_received = EmptyMap
    /\ complete_messages = <<>>
    /\ pc = "reading"
    /\ call \in {Call("send_request", 1, NoneVal, rtype) :
                    rtype \in {"bus_messages"}}
    /\ outcome = Returned
    /\ written = <<"01 00">>
    /\ bus \in OrderedScenarios
    /\ arrived = NoArrivals
    /\ lost = NoArrivals
    /\ processed = NotProcessed
    /\ completion_log = <<>>
    /\ last_rrc = NoneVal
    /\ consumed = NoneVal
    /\ session_ok = TRUE
    /\ reply = NoReply
    /\ flow_control = NoFlowControl
    /\ port = NewPort
    /\ now = 0
    /\ registry = BuiltinRegistry
    /\ msg = NoMsg
    /\ rd = NoRead
    /\ search = NoSearch
    /\ probe = NoProbe

NextOrdered ==
    \/ \E e \in ECUs : \E i \in 0..MaxOrderedFrames : ReceiveFrame(e, i)
    \/ \E order \in KeyOrders(frames_received) : FinishResponse(order)

SpecOrdered == InitOrdered /\ [][NextOrdered]_vars

(***************************************************************************)
(* A response into which a Flow-Control frame (PCI byte 0x30, block size   *)
(* 0, separation time 0) is received, from the address of the answering    *)
(* ECU or from another address, at any point of the response; and the      *)
(* close of the interface afterwards                                       *)
(***************************************************************************)
MaxFlowFrames == 3
FlowScenarios == Scenario({{0}}, 1..MaxFlowFrames, TRUE, FALSE)
FlowControlFrame(header) == header \o <<48, 0, 0>>

InitFlow ==
    /\ interface_configured = TRUE
    /\ connected_to_vehicle = TRUE
    /\ vehicle_protocol = "6"
    /\ protocol_response = "6"
    /\ token = NoneVal
    /\ frames_received = EmptyMap
    /\ complete_messages = <<>>
    /\ pc = "reading"
    /\ call = Call("send_request", 1, NoneVal, "bus_messages")
    /\ outcome = Returned
    /\ written = <<"01 00">>
    /\ bus \in FlowScenarios
    /\ arrived = NoArrivals
    /\ lost = NoArrivals
    /\ processed = NotProcessed
    /\ completion_log = <<>>
    /\ last_rrc = NoneVal
    /\ consumed = NoneVal
    /\ session_ok = TRUE
    /\ reply = NoReply
    /\ \E e \in ECUs : flow_control = [header |-> Header(e), arrived |-> FALSE]
    /\ port = NewPort
    /\ now = 0
    /\ registry = BuiltinRegistry
    /\ msg = NoMsg
    /\ rd = NoRead
    /\ search = NoSearch
    /\ probe = NoProbe

\* _received_obd_frame on the Flow-Control frame
ReceiveFlowControl ==
    /\ Reading
    /\ UNCHANGED <<standVars, reply>>
    /\ flow_control.header # <<>>
    /\ ~flow_control.arrived
    /\ flow_control' = [flow_control EXCEPT !.arrived = TRUE]
    /\ LET r == received_obd_frame(frames_received, complete_messages,
                    FlowControlFrame(flow_control.header)) IN
        /\ frames_received' = r.fr
        /\ complete_messages' = r.queue
        /\ completion_log' = IF Len(r.queue) > Len(complete_messages)
                             THEN Append(completion_log, flow_control.header)
                             ELSE completion_log
        /\ IF r.raised = "none"
           THEN UNCHANGED <<pc, outcome>>
           ELSE /\ pc' = "idle"
                /\ outcome' = Raised(r.raised)
    /\ UNCHANGED <<ifaceVars, tokenVars, call, written, bus, arrived, lost,
                   processed, session_ok>>

NextFlow ==
    \/ \E e \in ECUs : \E i \in 0..MaxFlowFrames : ReceiveFrame(e, i)
    \/ ReceiveFlowControl
    \/ \E order \in KeyOrders(frames_received) : FinishResponse(order)
    \/ Close

SpecFlow == InitFlow /\ [][NextFlow]_vars

\* the same response, and the requests sent after it: every send_request
\* starts a further cycle of _process_obd_response on the same interface
NextCycle ==
    \/ \E e \in ECUs : \E i \in 0..MaxFlowFrames : ReceiveFrame(e, i)
    \/ ReceiveFlowControl
    \/ \E order \in KeyOrders(frames_received) : FinishResponse(order)
    \/ \E req \in Requests : SendRequest(req, NoneVal, "bus_messages")

SpecCycle == InitFlow /\ [][NextCycle]_vars

(***************************************************************************)
(* The reassembler fed with any frames the wire can deliver, well formed   *)
(* or not, over several responses: Single Frames (with a valid length,     *)
(* length 0 and a length above 7), First Frames, Consecutive Frames with   *)
(* any number, and Flow-Control frames                                     *)
(***************************************************************************)
MaxWireFrames == 2
MaxResponses == 2
WireData ==
    {<<2, 65, 0>>,                          \* SF, 2 bytes
     <<0>>,                                 \* SF, length 0
     <<8, 65, 0, 1, 2, 3, 4, 5>>,           \* SF, length nibble 8
     <<16, 8, 73, 2, 1, 0, 0, 0>>,          \* FF, 8 bytes: 2 frames
     <<16, 15, 73, 2, 1, 0, 0, 0>>,         \* FF, 15 bytes: 3 frames
     <<33, 49, 50, 0, 0, 0, 0, 0>>,         \* CF 1
     <<34, 51, 52, 53, 54, 55, 56, 57>>,    \* CF 2
     <<48, 0, 0>>}                          \* FC
WireFrames ==
    {Header(0) \o data : data \in WireData} \cup {Header(1) \o <<2, 65, 0>>}

\* the response being read: how many frames of it were received, the last
\* of them, and which response on this interface it is
WireBus(count, raw, response) ==
    [msgs |-> EmptyMap, ordered |-> TRUE, lossy |-> FALSE,
     count |-> count, raw |-> raw, response |-> response]

InitWire ==
    /\ interface_configured = TRUE
    /\ connected_to_vehicle = TRUE
    /\ vehicle_protocol = "6"
    /\ protocol_response = "6"
    /\ token = NoneVal
    /\ frames_received = EmptyMap
    /\ complete_messages = <<>>
    /\ pc = "reading"
    /\ call = Call("send_request", 1, NoneVal, "bus_messages")
    /\ outcome = Returned
    /\ written = <<"01 00">>
    /\ bus = WireBus(0, <<>>, 1)
    /\ arrived = NoArrivals
    /\ lost = NoArrivals
    /\ processed = NotProcessed
    /\ completion_log = <<>>
    /\ last_rrc = NoneVal
    /\ consumed = NoneVal
    /\ session_ok = TRUE
    /\ reply = NoReply
    /\ flow_control = NoFlowControl
    /\ port = NewPort
    /\ now = 0
    /\ registry = BuiltinRegistry
    /\ msg = NoMsg
    /\ rd = NoRead
    /\ search = NoSearch
    /\ probe = NoProbe

\* _process_obd_response: _received_obd_frame on the next frame of the list
ReceiveWireFrame(raw) ==
    /\ Reading
    /\ UNCHANGED <<standVars, reply, flow_control>>
    /\ bus.count < MaxWireFrames
    /\ bus' = WireBus(bus.count + 1, raw, bus.response)
    /\ LET r == received_obd_frame(frames_received, complete_messages, raw) IN
        /\ frames_received' = r.fr
        /\ complete_messages' = r.queue
        /\ completion_log' = IF Len(r.queue) > Len(complete_messages)
                             THEN Append(completion_log, SubSeq(raw, 1, 4))
                             ELSE completion_log
        /\ IF r.raised = "none"
           THEN UNCHANGED <<pc, outcome>>
           ELSE /\ pc' = "idle"
                /\ outcome' = Raised(r.raised)
    /\ UNCHANGED <<ifaceVars, tokenVars, call, written, arrived, lost,
                   processed, session_ok>>

\* the next send_request on the interface: the request is written and
\* _process_obd_response starts on the frames read
NextResponse(req) ==
    /\ Idle
    /\ UNCHANGED standVars
    /\ bus.response < MaxResponses
    /\ call' = Call("send_request", req.bytes[1], NoneVal, "bus_messages")
    /\ outcome' = Returned
    /\ written' = <<req.ascii>>
    /\ pc' = "reading"
    /\ bus' = WireBus(0, <<>>, bus.response + 1)
    /\ reply' = NoReply
    /\ flow_control' = NoFlowControl
    /\ arrived' = NoArrivals
    /\ lost' = NoArrivals
    /\ processed' = NotProcessed
    /\ completion_log' = <<>>
    /\ UNCHANGED <<ifaceVars, tokenVars, session_ok, reasmVars>>

NextWire ==
    \/ \E raw \in WireFrames : ReceiveWireFrame(raw)
    \/ \E order \in KeyOrders(frames_received) : FinishResponse(order)
    \/ NextResponse([bytes |-> <<1, 0>>, ascii |-> "01 00"])

SpecWire == InitWire /\ [][NextWire]_vars

(***************************************************************************)
(* Responses on a legacy protocol (ISO 9141-2, headers on): the frames of  *)
(* a Service $03 or $07 response from two ECUs, and those of a Service $09 *)
(* response with a fixed frame count, handed to the reassembler in any     *)
(* order                                                                   *)
(***************************************************************************)
\* most frames one ECU answers a Service $03 or $07 request with
MaxLegacyFrames == 3
LegacyHeader(e) == <<72, 107, 16 + e>>
\* the k-th frame of ECU e for Service sid: three DTCs
DTCFrame(e, sid, k) ==
    LegacyHeader(e) \o <<sid + 64>> \o [j \in 1..6 |-> 32 * e + 8 * k + j]
        \o <<170>>
\* the frame with MessageCount mc of a Service $09 response: four bytes
InfoFrame(pid, mc) ==
    LegacyHeader(0) \o <<73, pid, mc>> \o [j \in 1..4 |-> 4 * mc + j]
        \o <<170>>

LegacyResponse(service, pid, raws) ==
    [msgs |-> EmptyMap, ordered |-> FALSE, lossy |-> FALSE,
     service |-> service, pid |-> pid, raws |-> raws, got |-> <<>>]
LegacyResponses ==
    {LegacyResponse(sid, NoneVal,
        [k \in 1..MaxLegacyFrames |-> DTCFrame(0, sid, k)]
            \o <<DTCFrame(1, sid, 1)>>) : sid \in {3, 7}}
    \cup {LegacyResponse(9, pid,
            [mc \in 1..Sid09SequenceLengths[pid] |-> InfoFrame(pid, mc)]) :
                pid \in {2, 8, 10}}

InitLegacy ==
    /\ interface_configured = TRUE
    /\ connected_to_vehicle = TRUE
    /\ vehicle_protocol = "3"
    /\ protocol_response = "3"
    /\ token = NoneVal
    /\ frames_received = EmptyMap
    /\ complete_messages = <<>>
    /\ pc = "reading"
    /\ bus \in LegacyResponses
    /\ call = Call("send_request", bus.service, NoneVal, "bus_messages")
    /\ outcome = Returned
    /\ written = <<"request">>
    /\ arrived = NoArrivals
    /\ lost = NoArrivals
    /\ processed = NotProcessed
    /\ completion_log = <<>>
    /\ last_rrc = NoneVal
    /\ consumed = NoneVal
    /\ session_ok = TRUE
    /\ reply = NoReply
    /\ flow_control = NoFlowControl
    /\ port = NewPort
    /\ now = 0
    /\ registry = BuiltinRegistry
    /\ msg = NoMsg
    /\ rd = NoRead
    /\ search = NoSearch
    /\ probe = NoProbe

Got(i) == \E n \in 1..Len(bus.got) : bus.got[n] = i

\* _process_obd_response: _received_obd_frame on the i-th frame of the
\* response, whichever comes next
ReceiveLegacyFrame(i) ==
    /\ Reading
    /\ UNCHANGED <<standVars, reply, flow_control>>
    /\ i \in 1..Len(bus.raws)
    /\ ~Got(i)
    /\ bus' = [bus EXCEPT !.got = Append(@, i)]
    /\ LET r == received_obd_frame(frames_received, complete_messages,
                                   bus.raws[i]) IN
        /\ frames_received' = r.fr
        /\ complete_messages' = r.queue
        /\ completion_log' = IF Len(r.queue) > Len(complete_messages)
                             THEN Append(completion_log, SubSeq(bus.raws[i], 1, 3))
                             ELSE completion_log
        /\ IF r.raised = "none"
           THEN UNCHANGED <<pc, outcome>>
           ELSE /\ pc' = "idle"
                /\ outcome' = Raised(r.raised)
    /\ UNCHANGED <<ifaceVars, tokenVars, call, written, arrived, lost,
                   processed, session_ok>>

NextLegacy ==
    \/ \E i \in 1..Len(bus.raws) : ReceiveLegacyFrame(i)
    \/ \E order \in KeyOrders(frames_received) : FinishResponse(order)

SpecLegacy == InitLegacy /\ [][NextLegacy]_vars

(***************************************************************************)
(* obd/interface/base.py: search_for_protocol, one iteration of its loop   *)
(* per step, on an interface that supports a subset of the protocols       *)
(***************************************************************************)
\* an order that tries CAN at 500k first and never waits
search_order_can_first ==
    << [protocol |-> "ISO15765_4 11/500", delay |-> 0],
       [protocol |-> "PWM", delay |-> 0],
       [protocol |-> "VPW", delay |-> 0],
       [protocol |-> "ISO9141_2", delay |-> 0],
       [protocol |-> "ISO14230_4 5BAUD", delay |-> 0],
       [protocol |-> "ISO14230_4 FAST", delay |-> 0],
       [protocol |-> "ISO15765_4 29/500", delay |-> 0],
       [protocol |-> "ISO15765_4 11/250", delay |-> 0],
       [protocol |-> "ISO15765_4 29/250", delay |-> 0] >>

\* the list search_order; delays in milliseconds
search_order ==
    << [protocol |-> "PWM", delay |-> 1000],
       [protocol |-> "VPW", delay |-> 0],
       [protocol |-> "ISO9141_2", delay |-> 5000],
       [protocol |-> "ISO14230_4 5BAUD", delay |-> 5000],
       [protocol |-> "ISO14230_4 FAST", delay |-> 0],
       [protocol |-> "ISO15765_4 11/500", delay |-> 0],
       [protocol |-> "ISO15765_4 29/500", delay |-> 0],
       [protocol |-> "ISO15765_4 11/250", delay |-> 0],
       [protocol |-> "ISO15765_4 29/250", delay |-> 0] >>

\* ELM327.set_protocol: the number sent with ATTP for a protocol
ProtocolKey(protocol) ==
    CHOOSE k \in DOMAIN ElmProtocols : ElmProtocols[k] = protocol

\* the sets get_supported_protocols may return
SupportedSets == SUBSET {search_order[i].protocol : i \in 1..Len(search_order)}

\* how one connect_to_vehicle of the search may end: by returning, with
\* ConnectionError or InterfaceBusy for the first line, with InterfaceError
\* (no first line, or an unknown ATDPN answer after the session began), or
\* with ProtocolError from _read_response
SearchConnects ==
    {"ok", "ConnectionError", "InterfaceBusy", "InterfaceError", "ProtocolError"}

\* the loop's "continue": the first entry from i on that is supported, or
\* Len(search_order) + 1
RECURSIVE NextSupported(_, _)
NextSupported(i, supported) ==
    IF i > Len(search_order) THEN i
    ELSE IF search_order[i].protocol \in supported THEN i
    ELSE NextSupported(i + 1, supported)

InitSearch ==
    /\ interface_configured = TRUE
    /\ connected_to_vehicle \in BOOLEAN
    /\ vehicle_protocol = IF connected_to_vehicle THEN "6" ELSE "unset"
    /\ protocol_response = IF connected_to_vehicle THEN "6" ELSE "None"
    /\ token = NoneVal
    /\ frames_received = EmptyMap
    /\ complete_messages = <<>>
    /\ pc = "idle"
    /\ call = Call("search_for_protocol", NoneVal, NoneVal, "none")
    /\ outcome = Returned
    /\ written = <<>>
    /\ bus = NoBus
    /\ arrived = NoArrivals
    /\ lost = NoArrivals
    /\ processed = NotProcessed
    /\ completion_log = <<>>
    /\ last_rrc = NoneVal
    /\ consumed = NoneVal
    /\ session_ok = connected_to_vehicle
    /\ reply = NoReply
    /\ flow_control = NoFlowControl
    /\ port = NewPort
    /\ now = 0
    /\ registry = BuiltinRegistry
    /\ msg = NoMsg
    /\ rd = NoRead
    /\ \E supported \in SupportedSets :
         search = [state |-> "running", supported |-> supported, i |-> 1,
                   tried |-> <<>>, connects |-> <<>>, slept |-> <<>>]
    /\ probe = NoProbe

searchKeep ==
    <<interface_configured, tokenVars, reasmVars, pc, call, busVars, reply,
      flow_control, port, rd, probe, decodeVars>>

\* one iteration for a supported protocol: set_protocol (with the disconnect
\* of a session in progress), connect_to_vehicle, and the sleep after a
\* ConnectionError.  cmd_ok: the AT commands of set_protocol are answered
SearchTry(cmd_ok, connect) ==
    /\ search.state = "running"
    /\ NextSupported(search.i, search.supported) <= Len(search_order)
    /\ LET i == NextSupported(search.i, search.supported)
           protocol == search_order[i].protocol
           key == ProtocolKey(protocol)
           cmds == (IF connected_to_vehicle THEN <<"ATPC">> ELSE <<>>)
                   \o <<"ATTP", key>>
           s1 == [search EXCEPT !.tried = Append(@, protocol)]
       IN
       IF ~cmd_ok
       THEN \* at_cmd raises; the session in progress is not ended
            /\ written' = IF connected_to_vehicle THEN <<"ATPC">> ELSE cmds
            /\ outcome' = Raised("Timeout")
            /\ search' = [s1 EXCEPT !.state = "done"]
            /\ UNCHANGED <<connected_to_vehicle, vehicle_protocol,
                           protocol_response, session_ok, now>>
       ELSE IF connect = "ok"
       THEN \* connect_to_vehicle caches the protocol the scan tool reports
            /\ written' = cmds \o <<"0100", "ATDPN">>
            /\ connected_to_vehicle' = TRUE
            /\ session_ok' = TRUE
            /\ protocol_response' = get_protocol("None", key).cache
            /\ vehicle_protocol' = key
            /\ outcome' = Returned
            /\ search' = [s1 EXCEPT !.state = "connected", !.i = i,
                                    !.connects = Append(@, connect)]
            /\ UNCHANGED now
       ELSE /\ written' = cmds \o <<"0100">>
            /\ IF connect = "InterfaceError"
               THEN connected_to_vehicle' \in BOOLEAN
               ELSE connected_to_vehicle' = FALSE
            /\ session_ok' = FALSE
            /\ protocol_response' = "None"
            /\ UNCHANGED vehicle_protocol
            /\ IF connect = "ConnectionError"
               THEN /\ outcome' = Returned
                    /\ now' = now + search_order[i].delay
                    /\ search' = [s1 EXCEPT !.i = i + 1,
                                            !.connects = Append(@, connect),
                                            !.slept = Append(@, search_order[i].delay)]
               ELSE /\ outcome' = Raised(connect)
                    /\ search' = [s1 EXCEPT !.state = "done", !.i = i,
                                            !.connects = Append(@, connect)]
                    /\ UNCHANGED now
    /\ UNCHANGED searchKeep

\* the else clause of the loop: no entry is left
SearchExhausted ==
    /\ search.state = "running"
    /\ NextSupported(search.i, search.supported) > Len(search_order)
    /\ search' = [search EXCEPT !.state = "done"]
    /\ outcome' = Raised("ProtocolError")
    /\ written' = <<>>
    /\ UNCHANGED <<connected_to_vehicle, vehicle_protocol, protocol_response,
                   session_ok, now>>
    /\ UNCHANGED searchKeep

\* return self.get_protocol()
SearchReturn(answer) ==
    /\ search.state = "connected"
    /\ LET g == get_protocol(protocol_response, answer) IN
        /\ outcome' = Outcome(g.raised, NoneVal, g.result)
        /\ protocol_response' = g.cache
    /\ written' = <<"ATDPN">>
    /\ search' = [search EXCEPT !.state = "done"]
    /\ UNCHANGED <<connected_to_vehicle, vehicle_protocol, session_ok, now>>
    /\ UNCHANGED <<interface_configured, tokenVars, reasmVars, pc, call,
                   busVars, flow_control, port, rd, probe, decodeVars>>
    /\ reply' = [NoReply EXCEPT !.atdpn = answer]

NextSearch ==
    \/ \E cmd_ok \in BOOLEAN : \E connect \in SearchConnects :
         SearchTry(cmd_ok, connect)
    \/ SearchExhausted
    \/ \E answer \in ProtocolAnswers \cup {"timeout", protocol_response} :
         SearchReturn(answer)

SpecSearch == InitSearch /\ [][NextSearch]_vars

(***************************************************************************)
(* ELM327.set_protocol called by the application                           *)
(***************************************************************************)
\* the protocols asked for: automatic selection (None), two of the
\* supported ones, and one the ELM327 does not know
RequestedProtocols == {"None", "ISO9141_2", "ISO15765_4 11/500", "KWP1281"}

\* a set_protocol that leaves a session in progress alone
set_protocol_keep_session(cfg, connected, protocol, atpc_ok, attp_ok) ==
    IF \A k \in DOMAIN ElmProtocols : ElmProtocols[k] # protocol
    THEN [connected |-> connected, written |-> <<>>, raised |-> "ValueError"]
    ELSE IF ~cfg
    THEN [connected |-> connected, written |-> <<>>,
          raised |-> "AssertionError"]
    ELSE [connected |-> connected,
          written |-> <<"ATTP", ProtocolKey(protocol)>>,
          raised |-> IF attp_ok THEN "none" ELSE "Timeout"]

\* ELM327.set_protocol on an interface with the given flags: the disconnect
\* of a session in progress (ATPC), then ATTP with the number of the
\* protocol, or ValueError when no supported protocol equals it.  atpc_ok,
\* attp_ok: the command is answered before the timeout
set_protocol(cfg, connected, protocol, atpc_ok, attp_ok) ==
    LET disconnect ==
            IF ~connected
            THEN [connected |-> FALSE, written |-> <<>>, raised |-> "none"]
            ELSE IF ~cfg
            THEN [connected |-> TRUE, written |-> <<>>,
                  raised |-> "AssertionError"]
            ELSE [connected |-> ~atpc_ok, written |-> <<"ATPC">>,
                  raised |-> IF atpc_ok THEN "none" ELSE "Timeout"]
    IN  IF disconnect.raised # "none" THEN disconnect
        ELSE IF \A k \in DOMAIN ElmProtocols : ElmProtocols[k] # protocol
        THEN [disconnect EXCEPT !.raised = "ValueError"]
        ELSE IF ~cfg
        THEN [disconnect EXCEPT !.raised = "AssertionError"]
        ELSE [connected |-> disconnect.connected,
              written |-> disconnect.written
                            \o <<"ATTP", ProtocolKey(protocol)>>,
              raised |-> IF attp_ok THEN "none" ELSE "Timeout"]

SetProtocol(protocol, atpc_ok, attp_ok) ==
    /\ Idle
    /\ UNCHANGED standVars
    /\ call' = Call("set_protocol", NoneVal, NoneVal, "none")
    /\ LET r == set_protocol(interface_configured, connected_to_vehicle,
                             protocol, atpc_ok, attp_ok) IN
        /\ connected_to_vehicle' = r.connected
        /\ session_ok' = (session_ok /\ r.connected)
        /\ written' = r.written
        /\ outcome' = Raised(r.raised)
    /\ UNCHANGED <<interface_configured, vehicle_protocol, protocol_response,
                   pc>>
    /\ NoResponse
    /\ UNCHANGED <<tokenVars, reasmVars>>

NextProtocol ==
    \/ \E fail \in 0..Len(OpenCommands) : Open(fail)
    \/ \E ok \in BOOLEAN : DisconnectFromVehicle(ok)
    \/ \E fail \in 0..Len(OpenCommands) : ConnectToVehicle(fail)
    \/ \E e \in ECUs : \E i \in 0..MaxOrderedFrames : ReceiveFrame(e, i)
    \/ \E order \in KeyOrders(frames_received) : FinishResponse(order)
    \/ \E protocol \in RequestedProtocols : \E atpc_ok \in BOOLEAN :
         \E attp_ok \in BOOLEAN : SetProtocol(protocol, atpc_ok, attp_ok)

SpecProtocol == Init /\ [][NextProtocol]_vars

(***************************************************************************)
(* obd/serialport.py: set_timeout and read_until_string.  Times are whole  *)
(* milliseconds; now is time.time().  One step of ReadStep is one          *)
(* iteration of the loop of read_until_string, the blocking read included  *)
(***************************************************************************)
MAX_READ_OVERRUN == 10
\* the clock value up to which calls are made
MaxClock == 16
\* the timeouts and polling intervals calls of set_timeout pass; NoneVal is
\* the default interval=None
Timeouts == {12, 20}
\* the reads made after one set_timeout
MaxReads == 2
Intervals == {NoneVal, 4, 12}

\* SerialPort.set_timeout called at time t
set_timeout(p, t, timeout, interval) ==
    LET i == IF interval = NoneVal THEN timeout ELSE interval IN
    [p EXCEPT !.deadline = t + timeout,
              !.interval = i,
              !.read_timeout = IF i # p.interval THEN i ELSE p.read_timeout]

\* a deadline check that gives up one overrun early
read_expired_early(remaining) == remaining <= MAX_READ_OVERRUN

\* if (remaining <= 0): raise ReadTimeout
read_expired(remaining) == remaining <= 0

\* remaining / 2.0, in whole milliseconds
Half(remaining) == (remaining + 1) \div 2

\* the interval the loop reads with: dialed down when the deadline is nearer
\* than one interval
dialed(interval, remaining) ==
    IF remaining < interval /\ interval >= MAX_READ_OVERRUN
    THEN Half(remaining) ELSE interval

\* a finally clause that restores nothing
restore_nothing(p, interval) == p

\* the finally clause: restore the port's timeout if it was dialed down
restore(p, interval) ==
    IF interval # p.interval THEN [p EXCEPT !.read_timeout = p.interval] ELSE p

InitPort ==
    /\ interface_configured = FALSE
    /\ connected_to_vehicle = FALSE
    /\ vehicle_protocol = "unset"
    /\ protocol_response = "None"
    /\ token = NoneVal
    /\ frames_received = EmptyMap
    /\ complete_messages = <<>>
    /\ pc = "idle"
    /\ call = Call("init", NoneVal, NoneVal, "none")
    /\ outcome = Returned
    /\ written = <<>>
    /\ bus = NoBus
    /\ arrived = NoArrivals
    /\ lost = NoArrivals
    /\ processed = NotProcessed
    /\ completion_log = <<>>
    /\ last_rrc = NoneVal
    /\ consumed = NoneVal
    /\ session_ok = FALSE
    /\ reply = NoReply
    /\ flow_control = NoFlowControl
    /\ port = NewPort
    /\ now = 0
    /\ registry = BuiltinRegistry
    /\ msg = NoMsg
    /\ rd = NoRead
    /\ search = NoSearch
    /\ probe = NoProbe

portKeep ==
    <<ifaceVars, tokenVars, reasmVars, pc, call, outcome, written, busVars,
      session_ok, reply, flow_control, search, probe, decodeVars>>

\* set_timeout(timeout, interval) between reads
SetTimeout(timeout, interval) ==
    /\ rd.state # "reading"
    /\ now <= MaxClock
    /\ port' = set_timeout(port, now, timeout, interval)
    /\ rd' = [state |-> "none", timeout |-> timeout, set_at |-> now, reads |-> 0]
    /\ UNCHANGED now
    /\ UNCHANGED portKeep

\* time passes between two calls
Tick ==
    /\ rd.state # "reading"
    /\ now < MaxClock
    /\ now' = now + 1
    /\ UNCHANGED <<port, rd>>
    /\ UNCHANGED portKeep

\* read_until_string is called (after a set_timeout: self.timeout exists)
StartRead ==
    /\ rd.state \in {"none", "done"}
    /\ port.deadline # NoneVal
    /\ now <= MaxClock
    /\ rd.reads < MaxReads
    /\ rd' = [state |-> "reading", timeout |-> rd.timeout, set_at |-> rd.set_at,
              reads |-> rd.reads + 1,
              start |-> now, interval |-> port.interval, silent |-> TRUE,
              result |-> "none"]
    /\ UNCHANGED <<port, now>>
    /\ UNCHANGED portKeep

\* one iteration.  wait: how long read(1) blocks; c: what it returns, "" on
\* a timeout, "x" for a character, "NUL" for 0x00, "end" for the character
\* that completes the awaited string
ReadStep(wait, c) ==
    /\ rd.state = "reading"
    /\ LET remaining == port.deadline - now
           interval == dialed(rd.interval, remaining)
           p1 == IF interval # rd.interval
                 THEN [port EXCEPT !.read_timeout = interval] ELSE port
       IN
       IF read_expired(remaining)
       THEN /\ wait = 0 /\ c = ""
            /\ rd' = [rd EXCEPT !.state = "done", !.result = "ReadTimeout"]
            /\ port' = restore(port, rd.interval)
            /\ UNCHANGED now
       ELSE /\ IF c = "" THEN wait = p1.read_timeout ELSE wait < p1.read_timeout
            /\ now' = now + wait
            /\ IF c = "" /\ interval = port.interval
               THEN /\ rd' = [rd EXCEPT !.state = "done", !.interval = interval,
                                        !.result = "IntervalTimeout"]
                    /\ port' = restore(p1, interval)
               ELSE IF c = "end"
               THEN /\ rd' = [rd EXCEPT !.state = "done", !.interval = interval,
                                        !.silent = FALSE, !.result = "ok"]
                    /\ port' = restore(p1, interval)
               ELSE /\ rd' = [rd EXCEPT !.interval = interval,
                                        !.silent = @ /\ c = ""]
                    /\ port' = p1
    /\ UNCHANGED portKeep

NextPort ==
    \/ \E timeout \in Timeouts : \E interval \in Intervals :
         interval <= timeout /\ SetTimeout(timeout, interval)
    \/ Tick
    \/ StartRead
    \/ \E wait \in 0..(MaxClock + MAX_READ_OVERRUN) : \E c \in {"", "x", "NUL", "end"} :
         ReadStep(wait, c)

SpecPort == InitPort /\ [][NextPort]_vars

(***************************************************************************)
(* obd/interface/elm.py: detect_baudrate, one iteration of its loop per    *)
(* step                                                                    *)
(***************************************************************************)
\* a list that probes the slow rates first
bauds_ascending == <<9600, 19200, 38400, 57600, 115200, 230400>>

\* the list bauds
bauds == <<38400, 9600, 230400, 115200, 57600, 19200>>

\* what the scan tool sends back to 7F 7F CR at a baud rate: nothing in
\* time, text up to a prompt that does not end with CR CR >, or "?" CR CR >
ProbeAnswers == {"timeout", "garbled", "prompt"}
\* the timeout detect_baudrate is called with, in milliseconds
ProbeTimeouts == {30}

InitBaud ==
    /\ interface_configured = FALSE
    /\ connected_to_vehicle = FALSE
    /\ vehicle_protocol = "unset"
    /\ protocol_response = "None"
    /\ token = NoneVal
    /\ frames_received = EmptyMap
    /\ complete_messages = <<>>
    /\ pc = "idle"
    /\ call = Call("detect_baudrate", NoneVal, NoneVal, "none")
    /\ outcome = Returned
    /\ written = <<>>
    /\ bus = NoBus
    /\ arrived = NoArrivals
    /\ lost = NoArrivals
    /\ processed = NotProcessed
    /\ completion_log = <<>>
    /\ last_rrc = NoneVal
    /\ consumed = NoneVal
    /\ session_ok = FALSE
    /\ reply = NoReply
    /\ flow_control = NoFlowControl
    /\ \E b \in {bauds[i] : i \in 1..Len(bauds)} : port = [NewPort EXCEPT !.baudrate = b]
    /\ now = 0
    /\ registry = BuiltinRegistry
    /\ msg = NoMsg
    /\ rd = NoRead
    /\ search = NoSearch
    /\ \E answers \in [{bauds[i] : i \in 1..Len(bauds)} -> ProbeAnswers] :
         probe = [state |-> "running", answers |-> answers, i |-> 1,
                  probed |-> <<>>, result |-> NoneVal]

baudKeep ==
    <<ifaceVars, tokenVars, reasmVars, pc, call, outcome, busVars, session_ok,
      reply, flow_control, rd, search, decodeVars>>

\* one iteration: set the baud rate, write the nonsense command, read up to
\* the prompt within the timeout
ProbeBaud(timeout) ==
    /\ probe.state = "running"
    /\ probe.i <= Len(bauds)
    /\ LET baud == bauds[probe.i]
           p1 == set_timeout([port EXCEPT !.baudrate = baud], now, timeout, NoneVal)
           answer == probe.answers[baud]
       IN
       /\ port' = p1
       /\ written' = <<"7F7F">>
       /\ \E wait \in {0, timeout} :
            /\ answer = "timeout" => wait = timeout
            /\ now' = now + wait
       /\ probe' = IF answer = "prompt"
                   THEN [probe EXCEPT !.state = "done", !.result = baud,
                                      !.probed = Append(@, baud)]
                   ELSE [probe EXCEPT !.i = @ + 1, !.probed = Append(@, baud)]
    /\ UNCHANGED baudKeep

\* the else clause of the loop
ProbeNone ==
    /\ probe.state = "running"
    /\ probe.i > Len(bauds)
    /\ probe' = [probe EXCEPT !.state = "done", !.result = NoneVal]
    /\ UNCHANGED <<port, now, written>>
    /\ UNCHANGED baudKeep

NextBaud ==
    \/ \E timeout \in ProbeTimeouts : ProbeBaud(timeout)
    \/ ProbeNone

SpecBaud == InitBaud /\ [][NextBaud]_vars

(***************************************************************************)
(* The message layer alone: registrations and the decoding of bus messages *)
(***************************************************************************)
restVars ==
    <<ifaceVars, tokenVars, reasmVars, pc, call, outcome, written, busVars,
      session_ok, reply, flow_control, port, now, rd, search, probe>>

InitRest ==
    /\ interface_configured = FALSE
    /\ connected_to_vehicle = FALSE
    /\ vehicle_protocol = "unset"
    /\ protocol_response = "None"
    /\ token = NoneVal
    /\ frames_received = EmptyMap
    /\ complete_messages = <<>>
    /\ pc = "idle"
    /\ call = Call("init", NoneVal, NoneVal, "none")
    /\ outcome = Returned
    /\ written = <<>>
    /\ bus = NoBus
    /\ arrived = NoArrivals
    /\ lost = NoArrivals
    /\ processed = NotProcessed
    /\ completion_log = <<>>
    /\ last_rrc = NoneVal
    /\ consumed = NoneVal
    /\ session_ok = FALSE
    /\ reply = NoReply
    /\ flow_control = NoFlowControl
    /\ port = NewPort
    /\ now = 0
    /\ rd = NoRead
    /\ search = NoSearch
    /\ probe = NoProbe

\* the arguments of the registrations explored
RegisterSids == {1, 3}
RegisterPids == {NoneVal, 0}
RegisterClasses == {"ClassA", "ClassB"}

\* the payloads of the bus messages handed to create: empty, a placeholder
\* as first byte, responses and requests of SID $01 (by PID) and SID $03 (no
\* PID), a response of an unknown PID and of an unknown SID, and a response
\* of SID $01 cut after the SID
CreateInputs ==
    { <<>>, <<NoneVal, 0>>, <<65, 0, 190, 31, 168, 19>>, <<1, 0>>, <<65>>,
      <<65, 5, 60>>, <<67, 1, 67>>, <<3>>, <<74, 0>>, <<10, 0>> }

InitRegistry ==
    /\ InitRest
    /\ registry \in {EmptyMap, BuiltinRegistry}
    /\ msg = NoMsg

\* the class registered for (sid, pid, direction), "None" if there is none
Registered(reg, sid, pid, response) ==
    IF sid \in DOMAIN reg /\ pid \in DOMAIN reg[sid].classes
    THEN reg[sid].classes[pid][ClassIndex(response)]
    ELSE "None"

Register(sid, pid, response, message_class, override) ==
    /\ LET r == register_message_class(registry, sid, pid, response,
                                       message_class, override) IN
        /\ registry' = r.reg
        /\ msg' = [op |-> "register_message_class", sid |-> sid, pid |-> pid,
                   response |-> response, class |-> message_class,
                   override |-> override, raised |-> r.raised,
                   replaced |-> Registered(registry, sid, pid, response)]
    /\ UNCHANGED restVars

Create(data) ==
    /\ LET c == create_class(registry, data) IN
        msg' = [op |-> "create", data |-> data, raised |-> c.raised,
                class |-> c.class, offset |-> c.offset, pid |-> c.pid]
    /\ UNCHANGED registry
    /\ UNCHANGED restVars

NextRegistry ==
    \/ \E sid \in RegisterSids : \E pid \in RegisterPids : \E response \in BOOLEAN :
         \E message_class \in RegisterClasses : \E override \in BOOLEAN :
           Register(sid, pid, response, message_class, override)
    \/ \E data \in CreateInputs : Create(data)

SpecRegistry == InitRegistry /\ [][NextRegistry]_vars

(***************************************************************************)
(* Variable-length responses and the trouble codes of Service $03          *)
(***************************************************************************)
\* Python's s[a:b] on a list: 0-based, end exclusive, clipped to the list
Slice(s, a, b) == SubSeq(s, a + 1, Min2(b, Len(s)))

\* Message.decode_integer: the bytes accumulated big-endian
RECURSIVE decode_integer(_)
decode_integer(byte_list) ==
    IF byte_list = <<>> THEN 0
    ELSE decode_integer(SubSeq(byte_list, 1, Len(byte_list) - 1)) * 256
           + byte_list[Len(byte_list)]

\* VariableLengthResponse.__init__ followed by Message.__init__: on ISO 15765
\* the byte at the offset is the item count and fixes the length; elsewhere
\* the message runs to the end of the bus message and the count is inferred
VariableLengthResponse_counted_everywhere(can, data, offset, item_length) ==
    IF offset >= Len(data)
    THEN [raised |-> "IndexError", item_count_byte |-> NoneVal,
          item_count |-> 0, length |-> 0, data_bytes |-> <<>>]
    ELSE [raised |-> "none", item_count_byte |-> data[offset + 1],
          item_count |-> data[offset + 1],
          length |-> data[offset + 1] * item_length + 1,
          data_bytes |->
              Slice(data, offset, offset + data[offset + 1] * item_length + 1)]
VariableLengthResponse(can, data, offset, item_length) ==
    IF can
    THEN IF offset >= Len(data)
         THEN [raised |-> "IndexError", item_count_byte |-> NoneVal,
               item_count |-> 0, length |-> 0, data_bytes |-> <<>>]
         ELSE LET length == data[offset + 1] * item_length + 1 IN
              [raised |-> "none", item_count_byte |-> data[offset + 1],
               item_count |-> data[offset + 1], length |-> length,
               data_bytes |-> Slice(data, offset, offset + length)]
    ELSE LET data_bytes == Slice(data, offset, Len(data)) IN
         [raised |-> "none", item_count_byte |-> NoneVal,
          item_count |-> Len(data_bytes) \div item_length,
          length |-> Len(data_bytes), data_bytes |-> data_bytes]

\* VariableLengthResponse._get_items_offset
get_items_offset(response) ==
    IF response.item_count_byte # NoneVal THEN 1 ELSE 0

\* VariableLengthResponse._get_item_bytes, from the items offset of the class
get_item_bytes(response, items_offset, item_length) ==
    [i \in 1..response.item_count |->
        Slice(response.data_bytes, items_offset + (i - 1) * item_length,
              items_offset + i * item_length)]

HexDigits ==
    <<"0", "1", "2", "3", "4", "5", "6", "7",
      "8", "9", "A", "B", "C", "D", "E", "F">>

\* "%04X" of a value below 0x10000
Hex04(n) ==
    <<HexDigits[((n \div 4096) % 16) + 1], HexDigits[((n \div 256) % 16) + 1],
      HexDigits[((n \div 16) % 16) + 1], HexDigits[(n % 16) + 1]>>

\* DTC.__str__, the string as the sequence of its characters
DTC_str_powertrain(value) ==
    IF value = 0 THEN <<"N", "o", "n", "e">> ELSE <<"P">> \o Hex04(value)
DTC_str(value) ==
    IF value = 0 THEN <<"N", "o", "n", "e">>
    ELSE <<(<<"P", "C", "B", "U">>)[((value \div 16384) % 4) + 1]>>
           \o Hex04(value % 16384)

\* DTCResponse.__init__: the items, their values, and the non-zero ones kept
DTCResponse(can, data, offset) ==
    LET response == VariableLengthResponse(can, data, offset, 2)
        items == get_item_bytes(response, get_items_offset(response), 2)
        values == [i \in DOMAIN items |-> decode_integer(items[i])]
        dtcs == SelectSeq(values, LAMBDA v : v # 0)
    IN  [raised |-> response.raised, item_count |-> response.item_count,
         items |-> items, dtcs |-> dtcs,
         strs |-> [i \in DOMAIN dtcs |-> DTC_str(dtcs[i])]]

\* the most DTC pairs in a payload explored
MaxDTCs == 3
\* the pairs explored: none, one per letter, and the largest
DTCPairs == { <<0, 0>>, <<1, 67>>, <<65, 150>>, <<130, 0>>, <<255, 255>> }
ExamplePayload == <<67, 1, 67, 0, 0, 65, 150, 0, 0>>

RECURSIVE Flatten(_)
Flatten(ss) == IF ss = <<>> THEN <<>> ELSE Head(ss) \o Flatten(Tail(ss))

\* Service $03 responses: on a legacy protocol the pairs follow the SID, with
\* or without a trailing odd byte; on ISO 15765 a count byte precedes them,
\* equal to, below or above the number of pairs that follow
DTCMessages ==
    LET pairSeqs == UNION { [1..n -> DTCPairs] : n \in 0..MaxDTCs } IN
      { [op |-> "bus_message", can |-> FALSE,
         data |-> <<67>> \o Flatten(ps) \o tail] :
           ps \in pairSeqs, tail \in {<<>>, <<7>>} }
      \cup
      { [op |-> "bus_message", can |-> TRUE,
         data |-> <<67, n>> \o Flatten(ps)] :
           ps \in pairSeqs, n \in 0..(MaxDTCs + 1) }
      \cup
      { [op |-> "bus_message", can |-> can, data |-> data] :
           can \in BOOLEAN, data \in {ExamplePayload, <<67>>} }

InitDTC ==
    /\ InitRest
    /\ registry = BuiltinRegistry
    /\ msg \in DTCMessages

\* create() on the bus message, which instantiates the class registered for
\* responses of SID $03
DecodeDTC ==
    /\ msg.op = "bus_message"
    /\ LET c == create_class(registry, msg.data) IN
        /\ c.class = "DTCResponse"
        /\ LET d == DTCResponse(msg.can, msg.data, c.offset) IN
            msg' = [op |-> "DTCResponse", can |-> msg.can, data |-> msg.data,
                    raised |-> d.raised, item_count |-> d.item_count,
                    items |-> d.items, dtcs |-> d.dtcs, strs |-> d.strs]
    /\ UNCHANGED registry
    /\ UNCHANGED restVars

NextDTC == DecodeDTC

SpecDTC == InitDTC /\ [][NextDTC]_vars

(***************************************************************************)
(* PID-support responses (Service $01 PID $00, $20, ...; Service $09 $00)  *)
(***************************************************************************)
\* bits & (1 << n) != 0 for bits = decode_integer(byte_list).  Python's
\* integers are unbounded and a four-byte value exceeds the integers of the
\* model checker, so the value stays in its base-256 digits: bit n is bit
\* n % 8 of the digit n \div 8 places from the right
integer_bit(byte_list, n) ==
    LET i == Len(byte_list) - (n \div 8) IN
      i >= 1 /\ (byte_list[i] \div (2 ^ (n % 8))) % 2 = 1

\* PIDSupportResponse.__init__
PIDSupportResponse_low_bit_first(data, offset, pid) ==
    LET data_bytes == Slice(data, offset, offset + 4)
        pid_supported == [pid_bit \in 1..32 |->
                            integer_bit(data_bytes, pid_bit - 1)]
    IN  [raised |-> "none", pid_supported |-> pid_supported,
         supported_pids |->
            SelectSeq([pid_bit \in 1..32 |-> pid + pid_bit],
                      LAMBDA p : pid_supported[p - pid])]
PIDSupportResponse(data, offset, pid) ==
    IF pid % 32 # 0
    THEN [raised |-> "AssertionError", pid_supported |-> <<>>,
          supported_pids |-> <<>>]
    ELSE LET data_bytes == Slice(data, offset, offset + 4)
             pid_supported == [pid_bit \in 1..32 |->
                                 integer_bit(data_bytes, 32 - pid_bit)]
         IN  [raised |-> "none", pid_supported |-> pid_supported,
              supported_pids |->
                 SelectSeq([pid_bit \in 1..32 |-> pid + pid_bit],
                           LAMBDA p : pid_supported[p - pid])]

\* the payload bytes explored: no bit, the lowest, the highest, a mixed
\* pattern, and all bits
SupportBytes == {0, 1, 128, 190, 255}

\* PID-support responses of Service $01 (PID $00 and $20) and Service $09
\* (INFOTYPE $00) with four payload bytes, one cut short and one followed by
\* a further byte
SupportMessages ==
    { [op |-> "bus_message", data |-> <<head[1], head[2], a, b, c, d>>] :
        head \in {<<65, 0>>, <<65, 32>>, <<73, 0>>},
        a \in SupportBytes, b \in SupportBytes,
        c \in SupportBytes, d \in SupportBytes }
    \cup { [op |-> "bus_message", data |-> <<65, 0, 255, 255, 255>>],
           [op |-> "bus_message", data |-> <<65, 32, 128, 0, 0, 1, 255>>] }

InitSupport ==
    /\ InitRest
    /\ registry = BuiltinRegistry
    /\ msg \in SupportMessages

\* create() on the bus message, which instantiates PIDSupportResponse
DecodeSupport ==
    /\ msg.op = "bus_message"
    /\ LET c == create_class(registry, msg.data) IN
        /\ c.class = "PIDSupportResponse"
        /\ LET r == PIDSupportResponse(msg.data, c.offset, c.pid) IN
            msg' = [op |-> "PIDSupportResponse", data |-> msg.data,
                    pid |-> c.pid, raised |-> r.raised,
                    pid_supported |-> r.pid_supported,
                    supported_pids |-> r.supported_pids]
    /\ UNCHANGED registry
    /\ UNCHANGED restVars

NextSupport == DecodeSupport

SpecSupport == InitSupport /\ [][NextSupport]_vars

(***************************************************************************)
(* The monitor status response (Service $01 PID $01)                       *)
(***************************************************************************)
\* Message.bit: bit `index` of the byte labelled A (1), B (2), C (3), D (4)
message_bit(data_bytes, byte, index) ==
    (data_bytes[byte] \div (2 ^ index)) % 2 = 1

\* TestReady._convert_value: a set bit means "not ready"
TestReady_not_inverted(raw_value) == raw_value
TestReady(raw_value) == ~raw_value

\* MonitorTest.status
MonitorTest_status(supported, ready) ==
    IF supported THEN (IF ready THEN "Ready" ELSE "Not Ready")
    ELSE "Not Supported"

\* _monitor_definitions joined with the value factories: for every monitor
\* the <<byte, bit>> of its support flag and of its ready flag
ContinuousMonitors ==
    [misfire |-> [sup |-> <<2, 0>>, rdy |-> <<2, 4>>],
     fuel_system |-> [sup |-> <<2, 1>>, rdy |-> <<2, 5>>],
     components |-> [sup |-> <<2, 2>>, rdy |-> <<2, 6>>]]
SparkMonitors ==
    [catalyst |-> [sup |-> <<3, 0>>, rdy |-> <<4, 0>>],
     catalyst_heater |-> [sup |-> <<3, 1>>, rdy |-> <<4, 1>>],
     evap |-> [sup |-> <<3, 2>>, rdy |-> <<4, 2>>],
     secondary_air |-> [sup |-> <<3, 3>>, rdy |-> <<4, 3>>],
     ac |-> [sup |-> <<3, 4>>, rdy |-> <<4, 4>>],
     o2 |-> [sup |-> <<3, 5>>, rdy |-> <<4, 5>>],
     o2_heater |-> [sup |-> <<3, 6>>, rdy |-> <<4, 6>>],
     egr |-> [sup |-> <<3, 7>>, rdy |-> <<4, 7>>]]
DieselMonitors ==
    [nmhc_catalyst |-> [sup |-> <<3, 0>>, rdy |-> <<4, 0>>],
     nox |-> [sup |-> <<3, 1>>, rdy |-> <<4, 1>>],
     egs |-> [sup |-> <<3, 5>>, rdy |-> <<4, 5>>],
     pm_filter |-> [sup |-> <<3, 6>>, rdy |-> <<4, 6>>],
     egr |-> [sup |-> <<3, 7>>, rdy |-> <<4, 7>>]]

\* MonitorStatusResponse.__init__ with supported_monitors() and
\* incomplete_monitors(); a message shorter than four bytes makes a bit
\* extraction outside the try block fail
MonitorStatusResponse(data, offset) ==
    LET data_bytes == Slice(data, offset, offset + 4) IN
    IF Len(data_bytes) < 4
    THEN [raised |-> "IndexError", dtc_count |-> 0, mil |-> FALSE,
          diesel |-> FALSE, monitors |-> EmptyMap, supported |-> {},
          incomplete |-> {}]
    ELSE LET diesel == message_bit(data_bytes, 2, 3)
             defs == ContinuousMonitors
                       @@ (IF diesel THEN DieselMonitors ELSE SparkMonitors)
             monitors ==
                [key \in DOMAIN defs |->
                   MonitorTest_status(
                     message_bit(data_bytes, defs[key].sup[1], defs[key].sup[2]),
                     TestReady(message_bit(data_bytes, defs[key].rdy[1],
                                           defs[key].rdy[2])))]
         IN  [raised |-> "none",
              dtc_count |-> data_bytes[1] % 128,
              mil |-> message_bit(data_bytes, 1, 7),
              diesel |-> diesel,
              monitors |-> monitors,
              supported |-> { key \in DOMAIN monitors :
                                monitors[key] # "Not Supported" },
              incomplete |-> { key \in DOMAIN monitors :
                                 monitors[key] = "Not Ready" }]

\* the payload bytes explored
StatusA == {0, 41, 127, 128, 255}
StatusB == {0, 1, 7, 8, 23, 82, 127}
StatusC == {0, 1, 101, 128, 255}
StatusD == {0, 1, 37, 128, 255}

StatusMessages ==
    { [op |-> "bus_message", data |-> <<65, 1, a, b, c, d>>] :
        a \in StatusA, b \in StatusB, c \in StatusC, d \in StatusD }
    \cup { [op |-> "bus_message", data |-> <<65, 1, 0, 7>>] }

InitStatus ==
    /\ InitRest
    /\ registry = BuiltinRegistry
    /\ msg \in StatusMessages

\* create() on the bus message, which instantiates MonitorStatusResponse
DecodeStatus ==
    /\ msg.op = "bus_message"
    /\ LET c == create_class(registry, msg.data) IN
        /\ c.class = "MonitorStatusResponse"
        /\ LET r == MonitorStatusResponse(msg.data, c.offset) IN
            msg' = [op |-> "MonitorStatusResponse", data |-> msg.data,
                    raised |-> r.raised, dtc_count |-> r.dtc_count,
                    mil |-> r.mil, diesel |-> r.diesel,
                    monitors |-> r.monitors, supported |-> r.supported,
                    incomplete |-> r.incomplete]
    /\ UNCHANGED registry
    /\ UNCHANGED restVars

NextStatus == DecodeStatus

SpecStatus == InitStatus /\ [][NextStatus]_vars

(***************************************************************************)
(* The variable-length responses of Service $09 and Service $03            *)
(***************************************************************************)
\* item_length of every subclass of VariableLengthResponse explored
item_length ==
    [DTCResponse |-> 2, VINResponse |-> 17, CalibrationIDResponse |-> 16,
     CVNResponse |-> 4, IPTResponse |-> 2, ECUNameResponse |-> 20]

\* VINResponse._get_items_offset: non-CAN responses lead with NULL padding
VINResponse_get_items_offset(response) ==
    IF response.item_count_byte # NoneVal THEN 1 ELSE 3

\* the constructor of a subclass of VariableLengthResponse up to its items:
\* the base initializer, _get_item_bytes (overridden by ECUNameResponse,
\* which splits its single item at the delimiter) and the count checks of
\* VINResponse and IPTResponse
VariableItems(class, can, data, offset) ==
    LET response == VariableLengthResponse(can, data, offset,
                                           item_length[class])
        items_offset == IF class = "VINResponse"
                        THEN VINResponse_get_items_offset(response)
                        ELSE get_items_offset(response)
        items == get_item_bytes(response, items_offset, item_length[class])
        result(raised, its) ==
            [raised |-> raised, item_count_byte |-> response.item_count_byte,
             item_count |-> response.item_count, length |-> response.length,
             items |-> its]
    IN  IF response.raised # "none" THEN result(response.raised, <<>>)
        ELSE IF class = "ECUNameResponse"
        THEN IF Len(items) # 1 THEN result("J1699Failure", <<>>)
             ELSE result("none", <<Slice(items[1], 0, 4),
                                   Slice(items[1], 5, Len(items[1]))>>)
        ELSE IF class = "VINResponse" /\ Len(items) # 1
        THEN result("J1699Failure", items)
        ELSE IF class = "IPTResponse" /\ Len(items) # 16 /\ Len(items) # 20
        THEN result("J1699Failure", items)
        ELSE result("none", items)

\* the item counts explored, and the bytes a response is filled with: byte i
\* of the content is fill + i % 10
ItemCounts == {0, 1, 2, 16, 20}
Fills == {48, 65}
Content(len, fill) == [i \in 1..len |-> fill + (i % 10)]

\* the SID (and PID) bytes that select each class
VariableHeads ==
    [DTCResponse |-> <<67>>, VINResponse |-> <<73, 2>>,
     CalibrationIDResponse |-> <<73, 4>>, CVNResponse |-> <<73, 6>>,
     IPTResponse |-> <<73, 8>>, ECUNameResponse |-> <<73, 10>>]

\* responses of every class with n items, complete, one byte short, or with
\* one or three bytes more: on ISO 15765 led by the count byte n, on a legacy
\* protocol without it
VariableMessages ==
    { [op |-> "bus_message", can |-> can,
       data |-> VariableHeads[class]
                  \o (IF can THEN <<n>> ELSE <<>>)
                  \o Content(IF n * item_length[class] + extra < 0 THEN 0
                             ELSE n * item_length[class] + extra, fill)] :
        class \in DOMAIN item_length, can \in BOOLEAN, n \in ItemCounts,
        extra \in {-1, 0, 1, 3}, fill \in Fills }
    \cup { [op |-> "bus_message", can |-> TRUE, data |-> <<73, 6>>] }

InitVariable ==
    /\ InitRest
    /\ registry = BuiltinRegistry
    /\ msg \in VariableMessages

\* create() on the bus message, which instantiates the registered subclass
\* of VariableLengthResponse
DecodeVariable ==
    /\ msg.op = "bus_message"
    /\ LET c == create_class(registry, msg.data) IN
        /\ c.class \in DOMAIN item_length
        /\ LET r == VariableItems(c.class, msg.can, msg.data, c.offset) IN
            msg' = [op |-> "VariableLengthResponse", class |-> c.class,
                    can |-> msg.can, data |-> msg.data, offset |-> c.offset,
                    raised |-> r.raised,
                    item_count_byte |-> r.item_count_byte,
                    item_count |-> r.item_count, length |-> r.length,
                    items |-> r.items]
    /\ UNCHANGED registry
    /\ UNCHANGED restVars

NextVariable == DecodeVariable

SpecVariable == InitVariable /\ [][NextVariable]_vars

(***************************************************************************)
(* The frame count of an ISO 15765 message: sequence_length on the First   *)
(* Frames declaring 0..MaxTotalBytes bytes and on the Single Frames        *)
(***************************************************************************)
MaxTotalBytes == 63
FirstFrameData(total_bytes) ==
    <<16 + (total_bytes \div 256), total_bytes % 256, 73, 2, 1, 0, 0, 0>>
SingleFrameData(length) == <<length>> \o [j \in 1..7 |-> 0]
LengthFrames ==
    {[op |-> "frame", raw |-> Header(0) \o FirstFrameData(total_bytes)] :
        total_bytes \in (0..MaxTotalBytes) \cup {300, 4095}}
    \cup {[op |-> "frame", raw |-> Header(0) \o SingleFrameData(length)] :
            length \in 0..7}

InitLength ==
    /\ InitRest
    /\ registry = BuiltinRegistry
    /\ msg \in LengthFrames

\* _received_obd_frame asking the frame for the length of its sequence
FrameLength ==
    /\ msg.op = "frame"
    /\ LET frame == parse_frame(msg.raw) IN
        msg' = [op |-> "sequence_length", raw |-> msg.raw,
                data_length |-> data_length(frame),
                sequence_length |-> sequence_length(frame)]
    /\ UNCHANGED registry
    /\ UNCHANGED restVars

NextLength == FrameLength

SpecLength == InitLength /\ [][NextLength]_vars

(***************************************************************************)
(* obd/interface/elm.py: _message_bytes_from_ascii, on the lines an ELM    *)
(* prints with headers on.  A line is a sequence of characters: an 11-bit  *)
(* CAN identifier of three digits, or a header of whole bytes, then the    *)
(* data bytes, with or without the spaces (ATS1, ATS0)                     *)
(***************************************************************************)
\* most data bytes of a line explored
MaxLineBytes == 2
\* "%02X" % b
Hex02(b) == <<HexDigits[(b \div 16) + 1], HexDigits[(b % 16) + 1]>>
\* int(c, 16) of one hexadecimal digit
HexValue(c) == CHOOSE v \in 0..15 : HexDigits[v + 1] = c

\* the line the ELM prints: the identifier or header, then the data bytes
AsciiLine(head, data, spaces) ==
    LET sep == IF spaces THEN <<" ">> ELSE <<>>
    IN  head \o Flatten([i \in 1..Len(data) |-> sep \o Hex02(data[i])])
AsciiHeader(header, spaces) ==
    LET sep == IF spaces THEN <<" ">> ELSE <<>>
    IN  Flatten([i \in 1..Len(header) |->
                    (IF i = 1 THEN <<>> ELSE sep) \o Hex02(header[i])])
LineData == UNION {[1..n -> {0, 65, 175}] : n \in 0..MaxLineBytes}
AsciiMessages ==
    {[op |-> "ascii", id |-> id, header |-> <<>>, data |-> data,
      line |-> AsciiLine(<<HexDigits[(id \div 256) + 1]>> \o Hex02(id % 256),
                         data, spaces)] :
        id \in {2024, 2025, 291}, data \in LineData, spaces \in BOOLEAN}
    \cup {[op |-> "ascii", id |-> NoneVal, header |-> header, data |-> data,
           line |-> AsciiLine(AsciiHeader(header, spaces), data, spaces)] :
            header \in {<<24, 218, 241, 16>>, <<72, 107, 16>>},
            data \in LineData, spaces \in BOOLEAN}

\* the conversion with a single "0" put before a line of odd length
message_bytes_pad_one(message) ==
    LET stripped == SelectSeq(message, LAMBDA c : c # " ")
        padded == IF Len(stripped) % 2 = 1
                  THEN <<"0">> \o stripped
                  ELSE stripped
    IN  [i \in 1..(Len(padded) \div 2) |->
            16 * HexValue(padded[2 * i - 1]) + HexValue(padded[2 * i])]

\* the body of the loop of _message_bytes_from_ascii: one line to its bytes
message_bytes(message) ==
    LET stripped == SelectSeq(message, LAMBDA c : c # " ")
        padded == IF Len(stripped) % 2 = 1
                  THEN <<"0", "0", "0", "0", "0">> \o stripped
                  ELSE stripped
    IN  [i \in 1..(Len(padded) \div 2) |->
            16 * HexValue(padded[2 * i - 1]) + HexValue(padded[2 * i])]

\* ELM32X._message_bytes_from_ascii
message_bytes_from_ascii(ascii_messages) ==
    [n \in 1..Len(ascii_messages) |-> message_bytes(ascii_messages[n])]

InitAscii ==
    /\ InitRest
    /\ registry = BuiltinRegistry
    /\ msg \in AsciiMessages

\* _send_obd_message converting the response it read
ConvertResponse ==
    /\ msg.op = "ascii"
    /\ msg' = [msg EXCEPT !.op = "raw_messages"]
              @@ [raw_messages |-> message_bytes_from_ascii(<<msg.line>>)]
    /\ UNCHANGED registry
    /\ UNCHANGED restVars

NextAscii == ConvertResponse

SpecAscii == InitAscii /\ [][NextAscii]_vars


(***************************************************************************)
(* The reset-confirmation guard                                            *)
(***************************************************************************)
\* a send_request call on an interface that passes the assertions and has a
\* protocol
Ready ==
    interface_configured /\ connected_to_vehicle /\ vehicle_protocol # "unset"
ResetCall == Idle /\ call'.op = "send_request" /\ call'.sid = 4

\* C1: a Service $04 request is written to the port only if the token passed
\* equals the token of the most recent ResetRequiresConfirmation; an attempt
\* without token raises ResetRequiresConfirmation with a newly drawn token,
\* which becomes the stored token, and writes nothing.
C1_TokenGuard ==
    [][ResetCall =>
        /\ written' # <<>> =>
             call'.token_arg = last_rrc /\ last_rrc # NoneVal
        /\ (Ready /\ call'.token_arg = NoneVal) =>
             /\ outcome'.raised = "ResetRequiresConfirmation"
             /\ outcome'.token \in Tokens
             /\ token' = outcome'.token
             /\ last_rrc' = outcome'.token
             /\ written' = <<>>]_vars

\* a confirmed reset has been written to the port
C1_Witness ==
    /\ call.op = "send_request" /\ call.sid = 4
    /\ written = <<"04">> /\ call.token_arg = last_rrc

\* C2: once a Service $04 request passing token t has been accepted, a later
\* Service $04 request passing the same t (no new token issued in between)
\* is rejected with ResetRequiresConfirmation.
C2_SingleUse ==
    [][(ResetCall /\ Ready /\ consumed # NoneVal /\ call'.token_arg = consumed)
         => outcome'.raised = "ResetRequiresConfirmation"]_vars

\* C3: after a Service $04 attempt raised ResetRequiresConfirmation with
\* token t, the immediately following Service $04 request passing t is
\* accepted and transmitted, whatever t the generator produced.
C3_TwoPhase ==
    [][(/\ ResetCall
        /\ call.op = "send_request" /\ call.sid = 4
        /\ outcome.raised = "ResetRequiresConfirmation"
        /\ call'.token_arg = outcome.token)
         => /\ outcome'.raised # "ResetRequiresConfirmation"
            /\ written' = <<"04">>]_vars

(***************************************************************************)
(* The interface life cycle                                                *)
(***************************************************************************)
\* C9: open() on an unconfigured interface starts the sequence with the
\* reset and leaves interface_configured true exactly when all four commands
\* succeeded (false whenever it raises); open() on a configured interface
\* writes nothing and leaves the flag set.
C9_Open ==
    [][(Idle /\ call'.op = "open") =>
        IF interface_configured
        THEN written' = <<>> /\ interface_configured' /\ outcome'.raised = "none"
        ELSE /\ written' # <<>> /\ written'[1] = "ATWS"
             /\ interface_configured' <=> outcome'.raised = "none"
             /\ outcome'.raised = "none" => written' = OpenCommands]_vars

\* an open() that failed after the reset: the flag is false again
C9_Witness ==
    /\ call.op = "open" /\ outcome.raised = "Timeout"
    /\ Len(written) > 1 /\ ~interface_configured

\* C10: a request is written to the port only between a connect_to_vehicle
\* that returned and the next disconnect.
C10_OnlyInSession ==
    (call.op = "send_request" /\ written # <<>>) => session_ok

(***************************************************************************)
(* The result of send_request                                              *)
(***************************************************************************)
\* C8: when a reassembled bus message of the response is incomplete,
\* send_request (modes bus_messages and obd_responses) raises DataError.
C8_DataError ==
    (/\ Idle /\ call.op = "send_request" /\ processed.returned
     /\ \E i \in 1..Len(processed.messages) : processed.messages[i].incomplete)
      => outcome.raised = "DataError"


(***************************************************************************)
(* Reassembly                                                              *)
(***************************************************************************)
Range(s) == {s[i] : i \in 1..Len(s)}
\* _process_obd_response has ended, by returning or by raising
Done == Idle /\ call.op = "send_request"
FramesOf(e) == NumFrames(bus.msgs[e].len)
\* the message of ECU e as its frames carry it: the bytes of M, followed by
\* the padding of the last frame
Transported(e) ==
    LET L == bus.msgs[e].len
        room == IF FramesOf(e) = 1 THEN 7 ELSE 7 * FramesOf(e) - 1
    IN  MessageBytes(e, L) \o
        (IF bus.msgs[e].pad THEN [j \in 1..(room - L) |-> 0] ELSE <<>>)
NoneCount(data) == Cardinality({i \in 1..Len(data) : data[i] = NoneVal})
MessagesFrom(e) ==
    {i \in 1..Len(processed.messages) : processed.messages[i].header = Header(e)}

\* C4 as stated: the frames of one message, fed in any order and flushed,
\* give exactly the bus message with M's header and M's data, and leave the
\* pending map empty.
C4_AnyPermutation ==
    (Done /\ ~bus.ordered) =>
        /\ processed.returned
        /\ processed.messages =
             <<[header |-> Header(0),
                data_bytes |-> MessageBytes(0, bus.msgs[0].len),
                incomplete |-> FALSE]>>
        /\ frames_received = EmptyMap

\* C4, amended: for a message of at most 9 frames, any order of arrival
\* gives exactly one complete bus message with M's header whose data is M
\* followed by the padding of the last frame; the pending map is empty.
C4_ShortPermutation ==
    (Done /\ ~bus.ordered /\ FramesOf(0) <= 9) =>
        /\ processed.returned
        /\ processed.messages =
             <<[header |-> Header(0),
                data_bytes |-> Transported(0),
                incomplete |-> FALSE]>>
        /\ frames_received = EmptyMap
        /\ complete_messages = <<>>

\* all Consecutive Frames of a 9-frame message have arrived before its First
\* Frame
C4_Witness ==
    /\ Reading /\ ~bus.ordered /\ FramesOf(0) = 9
    /\ arrived[0] = 1..8
    /\ Len(frames_received[Header(0)].frames) = 9

\* what _process_obd_response returns when ECU e's frames arrive alone, in
\* order
RECURSIVE AloneFrom(_, _, _, _)
AloneFrom(fr, queue, e, i) ==
    IF i = FramesOf(e)
    THEN flush_frames(fr, queue,
                      [k \in 1..Cardinality(DOMAIN fr) |-> Header(e)]).queue
    ELSE LET r == received_obd_frame(fr, queue,
                      RawFrame(e, bus.msgs[e].len, bus.msgs[e].pad, i))
         IN  AloneFrom(r.fr, r.queue, e, i + 1)
Alone(e) == AloneFrom(EmptyMap, <<>>, e, 0)

\* C5: the messages of two ECUs, each in its own order but interleaved on
\* the bus, give exactly two bus messages, each the one its frames give when
\* received alone.
C5_Interleaved ==
    (Done /\ bus.ordered /\ ~bus.lossy /\ DOMAIN bus.msgs = {0, 1}) =>
        /\ processed.returned
        /\ Len(processed.messages) = 2
        /\ \A e \in {0, 1} :
             /\ Alone(e) = <<[header |-> Header(e),
                              data_bytes |-> Transported(e),
                              incomplete |-> FALSE]>>
             /\ \E i \in 1..2 : processed.messages[i] = Alone(e)[1]
        /\ frames_received = EmptyMap

\* two messages longer than 16 frames were reassembled, ECU 1's first
C5_Witness ==
    /\ Done /\ bus.ordered /\ ~bus.lossy /\ DOMAIN bus.msgs = {0, 1}
    /\ FramesOf(0) > 16 /\ FramesOf(1) > 16
    /\ processed.returned
    /\ completion_log = <<Header(1), Header(0)>>

\* every frame of ECU e's message carries 8 data bytes
FullFrames(e) ==
    bus.msgs[e].pad \/ bus.msgs[e].len = MaxLen(FramesOf(e))
PlaceholdersFor(e) ==
    7 * Cardinality(lost[e] \ {0}) + (IF 0 \in lost[e] THEN 6 ELSE 0)

\* C6 as stated: when some frames of a message never arrive, the flushed
\* message has the nominal payload length, is incomplete, and holds 7
\* placeholders per missing Consecutive Frame and 6 for a missing First Frame.
C6_AnyLoss ==
    processed.returned =>
        \A e \in DOMAIN bus.msgs :
            (lost[e] # {} /\ arrived[e] # {}) =>
                \E i \in MessagesFrom(e) :
                    LET m == processed.messages[i] IN
                    /\ MessagesFrom(e) = {i}
                    /\ m.incomplete
                    /\ Len(m.data_bytes) = Len(Transported(e))
                    /\ NoneCount(m.data_bytes) = PlaceholdersFor(e)

\* C6, amended: the same, provided the frames carry 8 data bytes each and
\* the First Frame or the last Consecutive Frame is among those received;
\* the length is that of the completely reassembled message, 7N - 1.
C6_LossWithAnchor ==
    processed.returned =>
        \A e \in DOMAIN bus.msgs :
            (/\ lost[e] # {} /\ FullFrames(e)
             /\ (0 \in arrived[e] \/ FramesOf(e) - 1 \in arrived[e])) =>
                \E i \in MessagesFrom(e) :
                    LET m == processed.messages[i] IN
                    /\ MessagesFrom(e) = {i}
                    /\ m.incomplete
                    /\ Len(m.data_bytes) = 7 * FramesOf(e) - 1
                    /\ NoneCount(m.data_bytes) = PlaceholdersFor(e)

\* the First Frame and a Consecutive Frame were lost, the last frame arrived
C6_Witness ==
    /\ processed.returned /\ DOMAIN bus.msgs = {0} /\ bus.msgs[0].pad
    /\ FramesOf(0) = 4 /\ lost[0] = {0, 2}
    /\ NoneCount(processed.messages[1].data_bytes) = 13

\* C7: the returned list starts with the messages completed on arrival, in
\* the order of their completion; the messages only the flush completes
\* follow them.
C7_CompletionOrder ==
    processed.returned =>
        LET msgs == processed.messages
            n == Len(completion_log)
            flushed == {e \in DOMAIN bus.msgs :
                          arrived[e] # {} /\ Header(e) \notin Range(completion_log)}
        IN  /\ Len(msgs) = n + Cardinality(flushed)
            /\ \A i \in 1..n : msgs[i].header = completion_log[i]
            /\ {msgs[i].header : i \in (n + 1)..Len(msgs)} =
                 {Header(e) : e \in flushed}

\* ECU 1's message completed on arrival although ECU 0 answered first; ECU
\* 0's message, completed by the flush, follows it
C7_Witness ==
    /\ processed.returned /\ DOMAIN bus.msgs = {0, 1}
    /\ completion_log = <<Header(1)>>
    /\ Len(processed.messages) = 2
    /\ processed.messages[2].header = Header(0)
    /\ processed.messages[2].incomplete


(***************************************************************************)
(* The answer to 0100 during connect_to_vehicle                            *)
(***************************************************************************)
\* the first lines the claim counts as terminal failures
Refused(line) ==
    \/ EndsWith(line, <<"UNABLE", "TO", "CONNECT">>) \/ EndsWith(line, <<"ERROR">>)
    \/ line = <<"NO", "DATA">>
    \/ StartsWith(line, <<"STOPPED">>)
    \/ StartsWith(line, <<"BUS", "INIT:">>) /\ ~EndsWith(line, <<"OK">>)
ConnectEnded == Idle /\ call.op = "connect_to_vehicle" /\ reply.first # <<>>

\* C11 as stated: a refused first line makes the driver read on to the
\* prompt (which arrives) and then raise a connection or bus error;
\* connected_to_vehicle stays false.
C11_ConnectionOrBusError ==
    (ConnectEnded /\ Refused(reply.first) /\ reply.rest = "prompt") =>
        /\ reply.drained
        /\ outcome.raised \in {"ConnectionError", "BusError"}
        /\ ~connected_to_vehicle

\* C11, amended: the error raised after the draining read is ConnectionError,
\* except for a line that starts with STOPPED, which raises InterfaceBusy;
\* when the rest of the response does not arrive up to the prompt, the
\* failure of the draining read is raised instead.  connected_to_vehicle
\* stays false in every case.
C11_RefusedAnswer ==
    (ConnectEnded /\ Refused(reply.first)) =>
        /\ ~connected_to_vehicle
        /\ IF reply.rest = "prompt"
           THEN /\ reply.drained
                /\ outcome.raised = IF StartsWith(reply.first, <<"STOPPED">>)
                                    THEN "InterfaceBusy" ELSE "ConnectionError"
           ELSE /\ ~reply.drained
                /\ outcome.raised \in {"Timeout", "NameError"}

\* the vehicle answered NO DATA; the rest was read and ConnectionError raised
C11_Witness ==
    /\ ConnectEnded /\ reply.first = <<"NO", "DATA">>
    /\ reply.drained /\ outcome.raised = "ConnectionError"
    /\ ~connected_to_vehicle


(***************************************************************************)
(* The cached protocol                                                     *)
(***************************************************************************)
\* C12: within the session a successful connect_to_vehicle opened,
\* get_protocol() raises InterfaceError when the ATDPN answer (automatic
\* prefix removed) differs from the answer cached at connect, and returns
\* the descriptor connect returned when it is the same; a connect that
\* succeeds leaves the cache holding its own ATDPN answer.
C12_CachedProtocol ==
    [][/\ (Idle /\ session_ok /\ call'.op = "get_protocol"
              /\ reply'.atdpn # "none" /\ reply'.atdpn # "timeout") =>
            IF StripAuto(reply'.atdpn) # protocol_response
            THEN outcome'.raised = "InterfaceError" /\ protocol_response' = protocol_response
            ELSE /\ outcome'.raised = "none"
                 /\ outcome'.result = <<vehicle_protocol>>
                 /\ protocol_response' = protocol_response
       /\ (pc' = "idle" /\ session_ok' /\ call'.op = "connect_to_vehicle"
              /\ outcome'.raised = "none") =>
            /\ protocol_response' = StripAuto(reply'.atdpn)
            /\ vehicle_protocol' = protocol_response']_vars

\* in a session on protocol 6, ATDPN answered 7: the change was detected
C12_Witness ==
    /\ call.op = "get_protocol" /\ session_ok
    /\ protocol_response = "6" /\ reply.atdpn = "7"
    /\ outcome.raised = "InterfaceError"


(***************************************************************************)
(* The classification of error lines                                       *)
(***************************************************************************)
\* the class each pattern stands for
Documented(line) ==
    IF line = <<"?">> THEN "CommandNotSupported"
    ELSE IF line = <<"NO", "DATA">> THEN "DataError"
    ELSE IF EndsWith(line, <<"BUS", "BUSY">>) \/ EndsWith(line, <<"DATA", "ERROR">>)
    THEN "DataError"
    ELSE IF \/ EndsWith(line, <<"BUS", "ERROR">>) \/ EndsWith(line, <<"FB", "ERROR">>)
            \/ EndsWith(line, <<"LV", "RESET">>)
    THEN "BusError"
    ELSE IF EndsWith(line, <<"CAN", "ERROR">>) \/ EndsWith(line, <<"RX", "ERROR">>)
    THEN "ProtocolError"
    ELSE IF EndsWith(line, <<"BUFFER", "FULL">>) THEN "BufferOverflowError"
    ELSE IF Contains(line, <<"<", "DATA", "ERROR">>) THEN "DataError"
    ELSE IF \E i \in 1..Len(line) : line[i] \in ErrWords
    THEN (IF ErrWordIn(line) = "ERR94" THEN "BusError" ELSE "ELM32XError")
    ELSE "none"

FirstMatch(lines) ==
    CHOOSE i \in 1..Len(lines) :
        /\ Documented(lines[i]) # "none"
        /\ \A j \in 1..(i - 1) : Documented(lines[j]) = "none"

\* C19: _read_response raises, for the first line that matches a pattern,
\* the class of that pattern (CommandNotSupported, DataError, BusError,
\* ProtocolError, BufferOverflowError, the ELM-internal InterfaceError), and
\* returns the lines unchanged only when no line matches.
C19_Classification ==
    call.op = "_read_response" =>
        IF \E i \in 1..Len(reply.lines) : Documented(reply.lines[i]) # "none"
        THEN outcome.raised = Documented(reply.lines[FirstMatch(reply.lines)])
        ELSE outcome.raised = "none" /\ outcome.result = reply.lines


(***************************************************************************)
(* Flow-Control frames, and the pending map at close                       *)
(***************************************************************************)
\* C20: a frame whose PCI type is not Single, First or Consecutive Frame,
\* received at any point of a response, raises no error and leaves the bus
\* messages of the response those of the same response without that frame.
C20_FlowControlIgnored ==
    (Done /\ flow_control.arrived) =>
        /\ outcome.raised = "none"
        /\ processed.returned
        /\ processed.messages = Alone(0)

\* C18: after close() has returned on a configured interface the pending
\* map is empty.
C18_ClosedEmpty ==
    (Idle /\ call.op = "close" /\ interface_configured) =>
        frames_received = EmptyMap


(***************************************************************************)
(* The protocol search                                                     *)
(***************************************************************************)
\* the order and the delays (in milliseconds) the search is to follow
Order ==
    << "PWM", "VPW", "ISO9141_2", "ISO14230_4 5BAUD", "ISO14230_4 FAST",
       "ISO15765_4 11/500", "ISO15765_4 29/500", "ISO15765_4 11/250",
       "ISO15765_4 29/250" >>
Delays == <<1000, 0, 5000, 5000, 0, 0, 0, 0, 0>>
Position(protocol) == CHOOSE i \in 1..Len(Order) : Order[i] = protocol
InSupported(protocol) == protocol \in search.supported
Candidates == SelectSeq(Order, InSupported)
Failures ==
    {k \in 1..Len(search.connects) : search.connects[k] = "ConnectionError"}

\* C13: search_for_protocol tries the supported protocols in the order PWM,
\* VPW, ISO 9141-2, ISO 14230-4 (5-baud, then fast), ISO 15765-4 (11/500,
\* 29/500, 11/250, 29/250) and no others; after each ConnectionError it has
\* slept that protocol's delay (1 s, 0, 5 s, 5 s, 0, 0, 0, 0, 0); it stops at
\* the first successful connect and what it returns is the protocol of that
\* session; when every connect it made failed with ConnectionError it has
\* tried every supported protocol and raises ProtocolError.
C13_SearchOrder ==
    search.state # "none" =>
        /\ Len(search.tried) <= Len(Candidates)
        /\ search.tried = SubSeq(Candidates, 1, Len(search.tried))
        /\ \A k \in 1..Len(search.connects) :
             k < Len(search.connects) => search.connects[k] = "ConnectionError"
        /\ Len(search.slept) = Cardinality(Failures)
        /\ \A k \in Failures : search.slept[k] = Delays[Position(search.tried[k])]
        /\ search.state = "connected" =>
             /\ search.connects[Len(search.connects)] = "ok"
             /\ vehicle_protocol = ProtocolKey(search.tried[Len(search.tried)])
        /\ (search.state = "done" /\ outcome.raised = "none") =>
             /\ search.connects[Len(search.connects)] = "ok"
             /\ outcome.result = <<vehicle_protocol>>
             /\ vehicle_protocol = ProtocolKey(search.tried[Len(search.tried)])
        /\ (search.state = "done" /\ search.connects # <<>>
              /\ search.connects[Len(search.connects)] = "ok"
              /\ reply.atdpn = vehicle_protocol) => outcome.raised = "none"
        /\ (search.state = "done" /\ Len(search.connects) = Len(search.tried)
              /\ Failures = 1..Len(search.connects)) =>
             /\ search.tried = Candidates
             /\ outcome.raised = "ProtocolError"

\* on an interface without VPW and ISO 14230-4 fast, PWM, ISO 9141-2 and
\* ISO 14230-4 5-baud failed, 11 s were slept, and CAN 11/500 connected
C13_Witness ==
    /\ search.state = "done" /\ outcome.raised = "none"
    /\ search.tried = <<"PWM", "ISO9141_2", "ISO14230_4 5BAUD", "ISO15765_4 11/500">>
    /\ search.slept = <<1000, 5000, 5000>>
    /\ outcome.result = <<"6">>


(***************************************************************************)
(* The timing of read_until_string                                         *)
(***************************************************************************)
ReadEnded == rd.state = "done"
Elapsed == now - rd.start

\* C15: a read with overall timeout T and polling interval I ends within
\* T + MAX_READ_OVERRUN of its start, and a read that is started before the
\* deadline and receives nothing fails with IntervalTimeout, not ReadTimeout,
\* within I + MAX_READ_OVERRUN, for every I <= T, the default I = T included.
C15_SilentInterval ==
    ReadEnded =>
        /\ Elapsed <= rd.timeout + MAX_READ_OVERRUN
        /\ (rd.silent /\ rd.start < port.deadline) =>
             /\ rd.result = "IntervalTimeout"
             /\ Elapsed <= port.interval + MAX_READ_OVERRUN

\* C16 as stated: a read started at s with overall timeout T does not fail
\* with ReadTimeout before s + T, whichever read since the last set_timeout
\* it is.
C16_DeadlinePerRead ==
    (ReadEnded /\ rd.result = "ReadTimeout") => now >= rd.start + rd.timeout

\* C16, amended: the deadline is that of the last set_timeout, called at t0
\* with timeout T, and is shared by every read since: a read fails with
\* ReadTimeout only at or after t0 + T.
C16_DeadlinePerSetTimeout ==
    /\ rd.state # "none" => port.deadline = rd.set_at + rd.timeout
    /\ (ReadEnded /\ rd.result = "ReadTimeout") => now >= rd.set_at + rd.timeout

\* the second read since set_timeout failed with ReadTimeout less than T
\* after its start
C16_Witness ==
    /\ ReadEnded /\ rd.result = "ReadTimeout" /\ rd.reads = 2
    /\ rd.start > rd.set_at
    /\ now < rd.start + rd.timeout

\* C17: on every exit of read_until_string, by return or by exception, the
\* port's read timeout is the polling interval of the last set_timeout.
C17_TimeoutRestored ==
    ReadEnded => port.read_timeout = port.interval

\* a read that had dialed the port's timeout down has ended with ReadTimeout
C17_Witness ==
    /\ ReadEnded /\ rd.result = "ReadTimeout"
    /\ rd.interval # port.interval
    /\ port.read_timeout = port.interval


(***************************************************************************)
(* The detection of the baud rate                                          *)
(***************************************************************************)
Rates == <<38400, 9600, 230400, 115200, 57600, 19200>>
Answering(k) == probe.answers[Rates[k]] = "prompt"
FirstAnswering ==
    CHOOSE k \in 1..Len(Rates) : Answering(k) /\ \A j \in 1..(k - 1) : ~Answering(j)

\* C14: detect_baudrate probes 38400, 9600, 230400, 115200, 57600, 19200 in
\* this order and returns the first rate at which the read does not time
\* out and the response ends with CR CR >; no later rate is probed and the
\* port is left at the rate returned; it returns None when no rate answers.
C14_FirstAnsweringBaud ==
    /\ probe.state # "none" =>
         /\ Len(probe.probed) <= Len(Rates)
         /\ probe.probed = SubSeq(Rates, 1, Len(probe.probed))
    /\ probe.state = "done" =>
         IF \E k \in 1..Len(Rates) : Answering(k)
         THEN /\ probe.result = Rates[FirstAnswering]
              /\ probe.probed = SubSeq(Rates, 1, FirstAnswering)
              /\ port.baudrate = probe.result
         ELSE /\ probe.result = NoneVal
              /\ probe.probed = Rates

\* 38400 timed out, 9600 answered without CR CR >, 230400 answered; 115200
\* would have answered too
C14_Witness ==
    /\ probe.state = "done" /\ probe.result = 230400
    /\ probe.answers[38400] = "timeout" /\ probe.answers[9600] = "garbled"
    /\ probe.answers[115200] = "prompt"
    /\ probe.probed = <<38400, 9600, 230400>>
    /\ port.baudrate = 230400


(***************************************************************************)
(* The registry of message classes                                         *)
(***************************************************************************)
Registering == msg'.op = "register_message_class"
AlreadyRegistered ==
    Registered(registry, msg'.sid, msg'.pid, msg'.response) # "None"

\* C21: register_message_class for a (SID, PID, direction) that already has
\* a class fails unless override=True is passed, and then leaves the
\* registry unchanged; with override=True the new class replaces the old
\* one.
C21_ExplicitOverride ==
    [][(Registering /\ AlreadyRegistered) =>
         IF msg'.override
         THEN /\ msg'.raised = "none"
              /\ Registered(registry', msg'.sid, msg'.pid, msg'.response) = msg'.class
         ELSE /\ msg'.raised = "AssertionError"
              /\ registry' = registry]_vars

\* the built-in response class of SID $01 PID $00 was replaced by ClassA
C21_Witness ==
    /\ msg.op = "register_message_class" /\ msg.override /\ msg.raised = "none"
    /\ msg.replaced = "PIDSupportResponse"
    /\ Registered(registry, 1, 0, TRUE) = "ClassA"

\* the SID, the direction and the PID of a bus message of at least two bytes
SidOf(data) == ClearResponseBit(data[1])
RegisteredFor(data) ==
    IF SidOf(data) \in DOMAIN registry /\ registry[SidOf(data)].kind = "dict"
    THEN Registered(registry, SidOf(data), data[2], ResponseBit(data[1]))
    ELSE Registered(registry, SidOf(data), NoneVal, ResponseBit(data[1]))

\* C22: create(bus_message) instantiates the class registered for the
\* message's (SID, PID, direction), and a generic Message, without raising,
\* for every bus message that has no such registration.
C22_CreateDefaultsToMessage ==
    (msg.op = "create" /\ Len(msg.data) >= 2 /\ msg.data[1] # NoneVal) =>
        /\ msg.raised = "none"
        /\ msg.class = IF RegisteredFor(msg.data) # "None"
                       THEN RegisteredFor(msg.data) ELSE "Message"


\* the code a pair of bytes stands for: the letter from the top two bits of
\* the first byte, then the remaining 14 bits as four hexadecimal digits
PairCode(hi, lo) ==
    <<(<<"P", "C", "B", "U">>)[hi \div 64 + 1],
      HexDigits[((hi \div 16) % 4) + 1], HexDigits[(hi % 16) + 1],
      HexDigits[lo \div 16 + 1], HexDigits[(lo % 16) + 1]>>
\* the codes of the non-zero pairs among the first n pairs of bytes
RECURSIVE PairCodes(_, _)
PairCodes(bytes, n) ==
    IF n = 0 \/ Len(bytes) < 2 THEN <<>>
    ELSE (IF bytes[1] = 0 /\ bytes[2] = 0 THEN <<>>
          ELSE <<PairCode(bytes[1], bytes[2])>>)
         \o PairCodes(SubSeq(bytes, 3, Len(bytes)), n - 1)
Decoded == msg.op = "DTCResponse" /\ msg.raised = "none"

\* C23 (as stated): the payload 43 01 43 00 00 41 96 00 00 decodes to exactly
\* the DTC set {P0143, P4196}.
C23_ExamplePayload ==
    Decoded /\ msg.data = ExamplePayload
        => Range(msg.strs) = { <<"P", "0", "1", "4", "3">>,
                               <<"P", "4", "1", "9", "6">> }

\* C23 (amended): on a legacy protocol the bytes after the SID are read as
\* 16-bit pairs (an odd last byte is left out); on ISO 15765 the byte after
\* the SID is the number n of pairs and the n pairs after it are read, given
\* that they are all there.  Zero pairs are dropped and every other pair is
\* printed as the letter selected from P, C, B, U by its top two bits followed
\* by its low 14 bits as four hexadecimal digits, so on a legacy protocol the
\* payload 43 01 43 00 00 41 96 00 00 decodes to P0143 and C0196.
C23_DTCDecoding ==
    /\ Decoded /\ ~msg.can
         => msg.strs = PairCodes(Tail(msg.data), (Len(msg.data) - 1) \div 2)
    /\ Decoded /\ msg.can /\ Len(msg.data) >= 2 + 2 * msg.data[2]
         => msg.strs = PairCodes(Tail(Tail(msg.data)), msg.data[2])
    /\ Decoded /\ ~msg.can /\ msg.data = ExamplePayload
         => msg.strs = << <<"P", "0", "1", "4", "3">>,
                          <<"C", "0", "1", "9", "6">> >>
C23_Witness ==
    /\ Decoded /\ ~msg.can /\ msg.data = ExamplePayload
    /\ Len(msg.strs) = 2

\* bit n (0..31) of the big-endian 32-bit value of four bytes, from its two
\* 16-bit halves
Bit32(a, b, c, d, n) ==
    IF n >= 16 THEN ((a * 256 + b) \div (2 ^ (n - 16))) % 2 = 1
    ELSE ((c * 256 + d) \div (2 ^ n)) % 2 = 1
SupportDecoded ==
    msg.op = "PIDSupportResponse" /\ msg.raised = "none" /\ Len(msg.data) >= 6

\* C24: for a 4-byte PID-support payload with base PID b, PID b+k (1 <= k <=
\* 32) is supported iff bit (32-k) of the big-endian 32-bit value is set;
\* supported_pids lists exactly those PIDs in ascending order, is empty for
\* 00 00 00 00 and is b+1 .. b+0x20 for FF FF FF FF.
C24_PIDSupport ==
    SupportDecoded =>
      LET b == msg.data[2]
          listed == Range(msg.supported_pids)
      IN  /\ b % 32 = 0
          /\ \A k \in 1..32 :
               /\ msg.pid_supported[k]
                    = Bit32(msg.data[3], msg.data[4], msg.data[5],
                            msg.data[6], 32 - k)
               /\ (b + k \in listed) = msg.pid_supported[k]
          /\ listed \subseteq (b + 1)..(b + 32)
          /\ \A i \in 1..(Len(msg.supported_pids) - 1) :
               msg.supported_pids[i] < msg.supported_pids[i + 1]
          /\ SubSeq(msg.data, 3, 6) = <<0, 0, 0, 0>>
               => msg.supported_pids = <<>>
          /\ SubSeq(msg.data, 3, 6) = <<255, 255, 255, 255>>
               => msg.supported_pids = [k \in 1..32 |-> b + k]
C24_Witness ==
    /\ SupportDecoded
    /\ msg.data = <<65, 32, 190, 1, 128, 0>>
    /\ msg.supported_pids = <<33, 35, 36, 37, 38, 39, 48, 49>>

StatusDecoded == msg.op = "MonitorStatusResponse" /\ msg.raised = "none"
\* whether bit `index` of byte value b is set
BitSet(b, index) == (b \div (2 ^ index)) % 2 = 1
\* the status the payload prescribes for a monitor with the given flags
Prescribed(data, flags) ==
    LET sup == BitSet(data[2 + flags.sup[1]], flags.sup[2])
        rdy == BitSet(data[2 + flags.rdy[1]], flags.rdy[2])
    IN  IF ~sup THEN "Not Supported"
        ELSE IF ~rdy THEN "Ready" ELSE "Not Ready"

\* C25: for a payload A B C D of SID $01 PID $01, dtc_count = A & 0x7F and
\* MIL = bit 7 of A; bit 3 of B selects the diesel or the spark monitor set;
\* each monitor is 'Not Supported' when its support bit is 0, 'Ready' when
\* the support bit is 1 and the ready bit 0, 'Not Ready' when both are 1;
\* incomplete_monitors() is exactly the 'Not Ready' set and a subset of
\* supported_monitors().
C25_MonitorStatus ==
    StatusDecoded =>
      LET A == msg.data[3]
          B == msg.data[4]
          set == ContinuousMonitors
                   @@ (IF BitSet(B, 3) THEN DieselMonitors ELSE SparkMonitors)
      IN  /\ msg.dtc_count = A - (IF A >= 128 THEN 128 ELSE 0)
          /\ msg.mil = (A >= 128)
          /\ msg.diesel = BitSet(B, 3)
          /\ DOMAIN msg.monitors = DOMAIN set
          /\ \A key \in DOMAIN set :
               msg.monitors[key] = Prescribed(msg.data, set[key])
          /\ msg.incomplete
               = { key \in DOMAIN set : msg.monitors[key] = "Not Ready" }
          /\ msg.incomplete \subseteq msg.supported
          /\ msg.supported
               = { key \in DOMAIN set : msg.monitors[key] # "Not Supported" }
C25_Witness ==
    /\ StatusDecoded
    /\ msg.data = <<65, 1, 128, 7, 101, 37>>
    /\ msg.incomplete = {"catalyst", "evap", "o2"}
    /\ msg.monitors["o2_heater"] = "Ready"

VariableDecoded == msg.op = "VariableLengthResponse"
\* the count byte of an ISO 15765 response and the length of its items
CountByte == msg.data[msg.offset + 1]
ItemLength == item_length[msg.class]
\* all the bytes that the count byte announces are there
AllThere == Len(msg.data) >= msg.offset + 1 + CountByte * ItemLength
\* the i-th consecutive slice of item_length bytes after the count byte
ItemSlice(i) ==
    SubSeq(msg.data, msg.offset + 2 + (i - 1) * ItemLength,
           msg.offset + 1 + i * ItemLength)
\* the count that the class refuses with J1699Failure
RefusedCount ==
    \/ msg.class \in {"VINResponse", "ECUNameResponse"} /\ CountByte # 1
    \/ msg.class = "IPTResponse" /\ CountByte \notin {16, 20}

\* C27 (as stated): on ISO 15765 a variable-length response (VIN, CALID, CVN,
\* IPT, ECUNAME, DTC) takes its item count n from the first byte after the
\* SID/PID, has logical length 1 + n*item_length and yields exactly n items,
\* the consecutive item_length-byte slices after the count byte; on a legacy
\* protocol there is no count byte and n = floor(len(data)/item_length).
C27_CountedItems ==
    /\ VariableDecoded /\ msg.can /\ Len(msg.data) > msg.offset /\ AllThere
         => /\ msg.raised = "none"
            /\ msg.item_count = CountByte
            /\ msg.length = 1 + CountByte * ItemLength
            /\ msg.items = [i \in 1..CountByte |-> ItemSlice(i)]
    /\ VariableDecoded /\ ~msg.can
         => /\ msg.item_count_byte = NoneVal
            /\ msg.item_count = (Len(msg.data) - msg.offset) \div ItemLength

\* C27 (amended): on ISO 15765 the item count n is the first byte after the
\* SID/PID and the logical length is 1 + n*item_length.  VIN and ECUNAME
\* raise J1699Failure unless n = 1, and IPT unless n is 16 or 20.  Otherwise,
\* when all announced bytes are there, CALID, CVN, IPT, VIN and DTC yield
\* exactly the n consecutive item_length-byte slices after the count byte,
\* while ECUNAME yields two items, bytes 0..3 and bytes 5..19 of its single
\* slice.  On a legacy protocol there is no count byte and n is the number of
\* bytes after the SID/PID divided by item_length, rounded down.
C27_VariableLength ==
    /\ VariableDecoded /\ msg.can /\ Len(msg.data) > msg.offset
         => /\ msg.item_count = CountByte
            /\ msg.length = 1 + CountByte * ItemLength
            /\ (msg.raised = "J1699Failure") = RefusedCount
            /\ msg.raised \in {"none", "J1699Failure"}
            /\ msg.raised = "none" /\ AllThere
                 => IF msg.class = "ECUNameResponse"
                    THEN msg.items = <<SubSeq(ItemSlice(1), 1, 4),
                                       SubSeq(ItemSlice(1), 6, 20)>>
                    ELSE msg.items = [i \in 1..CountByte |-> ItemSlice(i)]
    /\ VariableDecoded /\ ~msg.can
         => /\ msg.item_count_byte = NoneVal
            /\ msg.item_count = (Len(msg.data) - msg.offset) \div ItemLength
C27_Witness ==
    /\ VariableDecoded /\ msg.can /\ msg.raised = "none" /\ AllThere
    /\ msg.class = "CVNResponse" /\ msg.item_count = 2
    /\ Len(msg.items) = 2 /\ Len(msg.items[2]) = 4
C27_WitnessLegacy ==
    /\ VariableDecoded /\ ~msg.can /\ msg.raised = "none"
    /\ msg.class = "VINResponse" /\ Len(msg.data) = 22 /\ msg.item_count = 1

(***************************************************************************)
(* The flags after a failed connect and after close                        *)
(***************************************************************************)
\* C29: if connect_to_vehicle raises, for any reason, connected_to_vehicle is
\* false afterwards: a call made without a session that ends by raising
\* leaves the flag false.
C29_FailedConnectNotConnected ==
    [][(Idle /\ ~connected_to_vehicle /\ call'.op = "connect_to_vehicle"
          /\ pc' = "idle" /\ outcome'.raised # "none")
        => ~connected_to_vehicle']_vars

\* C30: after close() returns, interface_configured and connected_to_vehicle
\* are both false.
C30_ClosedUnconfigured ==
    (Idle /\ call.op = "close" /\ outcome.raised = "none")
        => ~interface_configured /\ ~connected_to_vehicle

(***************************************************************************)
(* The reassembly state at the start of a cycle                            *)
(***************************************************************************)
\* C28: whenever _process_obd_response starts, the pending map and the
\* completed queue are both empty, also when the previous cycle ended with an
\* exception.
C28_CycleStartsEmpty ==
    [][(Idle /\ pc' = "reading")
        => (frames_received = EmptyMap /\ complete_messages = <<>>)]_vars

(***************************************************************************)
(* The session after set_protocol                                          *)
(***************************************************************************)
\* the position of the first command `cmd` in a sequence of writes, 0 if none
First(cmd, w) ==
    IF \E i \in 1..Len(w) : w[i] = cmd
    THEN CHOOSE i \in 1..Len(w) : w[i] = cmd /\ \A j \in 1..(i - 1) : w[j] # cmd
    ELSE 0

\* C26: set_protocol ends any session in progress: with a session active
\* ATPC is sent, and before any ATTP; without one no ATPC is sent; and after
\* set_protocol returns, which it does only after ATTP for a supported
\* protocol, connected_to_vehicle is false.
C26_SetProtocolDisconnects ==
    [][(Idle /\ call'.op = "set_protocol") =>
         /\ connected_to_vehicle /\ interface_configured
              => /\ First("ATPC", written') = 1
                 /\ First("ATTP", written') \in {0, 2}
         /\ ~connected_to_vehicle => First("ATPC", written') = 0
         /\ outcome'.raised = "none"
              => /\ ~connected_to_vehicle'
                 /\ Len(written') >= 2
                 /\ written'[Len(written') - 1] = "ATTP"]_vars
C26_Witness ==
    /\ Idle /\ call.op = "set_protocol" /\ outcome.raised = "none"
    /\ written = <<"ATPC", "ATTP", "6">>
    /\ ~connected_to_vehicle
    /\ vehicle_protocol # "unset"

(***************************************************************************)
(* The reassembler on any frames of the wire                               *)
(***************************************************************************)
\* the step of _process_obd_response in which _flush_frames runs
FlushStep ==
    /\ Reading
    /\ pc' = "idle"
    /\ bus' = bus
    /\ arrived' = arrived
    /\ flow_control' = flow_control

\* C31: after _flush_frames, whether it returned or raised, the pending
\* map is empty
C31_FlushClearsMap == [][FlushStep => frames_received' = EmptyMap]_vars

\* a flush that raised: the second response brought no frame, and the entry
\* without frames that the first response left makes frames[0] fail
C31_Witness ==
    /\ Idle
    /\ bus.response = 2
    /\ bus.count = 0
    /\ outcome.raised = "IndexError"
    /\ frames_received = EmptyMap

\* a pending entry whose length is known and whose slots are all filled
CompletePending(entry) == entry.len # NoneVal /\ ~HasNone(entry.frames)

\* the step in which _received_obd_frame runs on a frame of the wire
WireFrameStep == Reading /\ bus'.count = bus.count + 1

C33_StoredAtSequenceNumber ==
    [][WireFrameStep =>
         LET frame == parse_frame(bus'.raw)
             key == sequence_key(frame)
             last == IF key \in DOMAIN frames_received
                     THEN frames_received[key].last ELSE 0
             len == IF key \in DOMAIN frames_received
                    THEN frames_received[key].len ELSE NoneVal
             sn == sequence_number(frame, last)
         IN  (/\ ~sequence_number_raises(frame, last)
              /\ ~(len = NoneVal /\ data_length_raises(frame))
              /\ sn # NoneVal
              /\ key \in DOMAIN frames_received')
             => /\ Len(frames_received'[key].frames) >= sn + 1
                /\ frames_received'[key].frames[sn + 1] = frame]_vars

(***************************************************************************)
(* The frame count declared by a First Frame                               *)
(***************************************************************************)
IsFirstFrame(raw) == HiNibble(raw[5]) = FF
DeclaredLength(raw) ==
    IF IsFirstFrame(raw) THEN LoNibble(raw[5]) * 256 + raw[6] ELSE LoNibble(raw[5])
\* ceil(n / 7)
Ceil7(n) == (n + 6) \div 7

\* C34 as written: a First Frame declaring more than 7 bytes has
\* ceil(total_bytes / 7) + 1 frames, one declaring at most 7 has 1
C34_CeilPlusOne ==
    (msg.op = "sequence_length" /\ IsFirstFrame(msg.raw)) =>
        msg.sequence_length =
            IF DeclaredLength(msg.raw) > 7
            THEN Ceil7(DeclaredLength(msg.raw)) + 1 ELSE 1

\* C34: a First Frame declaring total_bytes > 7 has floor(total_bytes / 7)
\* + 1 frames, which is the First Frame with 6 bytes and
\* ceil((total_bytes - 6) / 7) Consecutive Frames with 7; a frame declaring
\* 1 to 7 bytes has 1, and one declaring 0 bytes has 0.
C34_SequenceLength ==
    msg.op = "sequence_length" =>
        LET total_bytes == DeclaredLength(msg.raw) IN
        /\ msg.data_length = total_bytes
        /\ total_bytes > 7 =>
             /\ msg.sequence_length = (total_bytes \div 7) + 1
             /\ msg.sequence_length = 1 + Ceil7(total_bytes - 6)
        /\ total_bytes \in 1..7 => msg.sequence_length = 1
        /\ total_bytes = 0 => msg.sequence_length = 0

\* 8 bytes: two frames, where ceil(8 / 7) + 1 is three
C34_Witness ==
    /\ msg.op = "sequence_length"
    /\ IsFirstFrame(msg.raw)
    /\ DeclaredLength(msg.raw) = 8
    /\ msg.sequence_length = 2

(***************************************************************************)
(* The sequence numbers of frames arriving in order                        *)
(***************************************************************************)
\* frame i of ECU e arrives in this step, on a bus that keeps each ECU's
\* frames in order and loses none
ArrivesInOrder(e, i) ==
    /\ Reading
    /\ bus.ordered /\ ~bus.lossy
    /\ e \in DOMAIN bus.msgs
    /\ i \notin arrived[e]
    /\ arrived'[e] = arrived[e] \cup {i}

\* C35: when the frames of a message arrive in order, the sequence number
\* computed for the i-th frame is i, also beyond the sixteenth frame, where
\* the frame carries i mod 16; the frame is stored at index i, or completes
\* the message.
C35_InOrderSequenceNumbers ==
    [][\A e \in ECUs : \A i \in 0..(MaxOrderedFrames + 1) :
         ArrivesInOrder(e, i) =>
           LET frame == parse_frame(RawFrame(e, bus.msgs[e].len, bus.msgs[e].pad, i))
               key == sequence_key(frame)
               last == IF key \in DOMAIN frames_received
                       THEN frames_received[key].last ELSE 0
           IN  /\ i > 0 => LoNibble(frame.data_bytes[1]) = i % 16
               /\ last = IF i = 0 THEN 0 ELSE i - 1
               /\ sequence_number(frame, last) = i
               /\ outcome' = outcome
               /\ IF key \in DOMAIN frames_received'
                  THEN /\ frames_received'[key].last = i
                       /\ frames_received'[key].frames[i + 1] = frame
                  ELSE /\ i = NumFrames(bus.msgs[e].len) - 1
                       /\ Len(complete_messages') = Len(complete_messages) + 1]_vars

\* the sixteenth Consecutive Frame, which carries the number 0, completed a
\* message of 17 frames, whose bytes are those the ECU sent
C35_Witness ==
    /\ Reading
    /\ \E e \in DOMAIN bus.msgs :
         /\ NumFrames(bus.msgs[e].len) > 16
         /\ 16 \in arrived[e]
         /\ LoNibble(FrameData(e, bus.msgs[e].len, bus.msgs[e].pad, 16)[1]) = 0
         /\ Header(e) \notin DOMAIN frames_received
         /\ \E k \in 1..Len(complete_messages) :
              /\ complete_messages[k].header = Header(e)
              /\ Len(complete_messages[k].data_bytes) >= bus.msgs[e].len
              /\ SubSeq(complete_messages[k].data_bytes, 1, bus.msgs[e].len)
                   = MessageBytes(e, bus.msgs[e].len)

(***************************************************************************)
(* The payload of a complete message and the length its PCI declares       *)
(***************************************************************************)
\* C36: a complete bus message has as many data bytes as its PCI declares
\* (the low nibble of a Single Frame, the 12 bits of a First Frame): the
\* bytes of the last frame beyond that length are not part of the payload.
C36_PayloadHasDeclaredLength ==
    \A k \in 1..Len(complete_messages) :
      \A e \in DOMAIN bus.msgs :
        (/\ complete_messages[k].header = Header(e)
         /\ ~complete_messages[k].incomplete
         /\ arrived[e] = FrameIds(bus, e))
        => /\ DeclaredLength(RawFrame(e, bus.msgs[e].len, bus.msgs[e].pad, 0))
                = bus.msgs[e].len
           /\ Len(complete_messages[k].data_bytes) = bus.msgs[e].len

(***************************************************************************)
(* Reassembly on a legacy protocol                                         *)
(***************************************************************************)
\* the frames received so far from ECU e, in arrival order
GotFrom(e) ==
    SelectSeq(bus.got, LAMBDA i : SubSeq(bus.raws[i], 1, 3) = LegacyHeader(e))
\* of a raw legacy frame, the data bytes from position `first` on (the
\* checksum is not data)
DataAfter(raw, first) == SubSeq(raw, 3 + first, Len(raw) - 1)
MessagesOf(queue, header) ==
    SelectSeq(queue, LAMBDA m : m.header = header)

\* C37: the frames of a Service $03 or $07 response that share their header
\* are held until the flush: before it no message is enqueued and the
\* pending entry of header and SID lists them in arrival order with no
\* length known; the flush emits for them exactly one bus message, whose
\* data is the SID followed by the bytes after the SID of each frame in
\* arrival order.
C37_LegacyDTCFrames ==
    bus.service \in {3, 7} =>
      /\ outcome.raised = "none"
      /\ Reading =>
           /\ complete_messages = <<>>
           /\ \A e \in ECUs :
                LET key == LegacyHeader(e) \o <<bus.service + 64>> IN
                IF GotFrom(e) = <<>> THEN key \notin DOMAIN frames_received
                ELSE /\ key \in DOMAIN frames_received
                     /\ frames_received[key].len = NoneVal
                     /\ frames_received[key].frames =
                          [n \in 1..Len(GotFrom(e)) |->
                              LegacyFrame_create(bus.raws[GotFrom(e)[n]])]
      /\ Idle =>
           /\ processed.returned
           /\ frames_received = EmptyMap
           /\ \A e \in ECUs :
                LET mine == MessagesOf(processed.messages, LegacyHeader(e)) IN
                IF GotFrom(e) = <<>> THEN mine = <<>>
                ELSE /\ Len(mine) = 1
                     /\ mine[1].data_bytes =
                          <<bus.service + 64>> \o
                          Flatten([n \in 1..Len(GotFrom(e)) |->
                                      DataAfter(bus.raws[GotFrom(e)[n]], 2)])
           /\ Len(processed.messages)
                = Cardinality({e \in ECUs : GotFrom(e) # <<>>})

\* a flushed Service $03 response of four frames from two ECUs, the second
\* frame of the first ECU having arrived before its first
C37_Witness ==
    /\ bus.service = 3
    /\ Idle
    /\ processed.returned
    /\ Len(bus.got) = Len(bus.raws)
    /\ GotFrom(0) = <<2, 1, 3>>
    /\ Len(processed.messages) = 2

\* C38: the frames of a Service $09 response with a fixed frame count (VIN
\* 5, IPT 8, ECUNAME 5), with MessageCount 1..count in any order: until the
\* last missing frame arrives nothing is enqueued; when it arrives, and
\* before any flush, exactly one bus message is enqueued, whose data is SID
\* and PID followed by the bytes after MessageCount of each frame in
\* MessageCount order, and the pending entry is gone.
C38_LegacyInfoFrames ==
    (bus.service = 9 /\ Reading) =>
      LET key == LegacyHeader(0) \o <<73, bus.pid>>
          count == Sid09SequenceLengths[bus.pid]
      IN  /\ outcome.raised = "none"
          /\ Len(bus.raws) = count
          /\ IF Len(bus.got) < count
             THEN /\ complete_messages = <<>>
                  /\ bus.got # <<>> =>
                       /\ key \in DOMAIN frames_received
                       /\ Len(frames_received[key].frames) = count
             ELSE /\ frames_received = EmptyMap
                  /\ Len(complete_messages) = 1
                  /\ complete_messages[1].header = LegacyHeader(0)
                  /\ complete_messages[1].data_bytes =
                       <<73, bus.pid>> \o
                       Flatten([mc \in 1..count |-> DataAfter(bus.raws[mc], 4)])

\* the eight frames of an IPT response, the last one first and the first
\* one last, made one message without a flush
C38_Witness ==
    /\ bus.service = 9
    /\ bus.pid = 8
    /\ Reading
    /\ Len(bus.got) = 8
    /\ bus.got[1] = 8
    /\ bus.got[8] = 1
    /\ Len(complete_messages) = 1
    /\ Len(complete_messages[1].data_bytes) = 34

(***************************************************************************)
(* The bytes of a response line                                            *)
(***************************************************************************)
HexDigitCount(line) == Len(SelectSeq(line, LAMBDA c : c # " "))

\* C39: a line with an odd number of hex digits (an 11-bit identifier of
\* three digits, then whole data bytes) gives a 4-byte header whose upper
\* five nibbles are zero and whose lower three are the identifier, then the
\* data bytes unchanged; a line with an even number of digits gives its
\* header and data bytes with nothing put before them.
C39_MessageBytes ==
    msg.op = "raw_messages" =>
        /\ Len(msg.raw_messages) = 1
        /\ (HexDigitCount(msg.line) % 2 = 1) = (msg.id # NoneVal)
        /\ IF HexDigitCount(msg.line) % 2 = 1
           THEN /\ HexDigitCount(msg.line) = 3 + 2 * Len(msg.data)
                /\ msg.raw_messages[1] =
                     <<0, 0, msg.id \div 256, msg.id % 256>> \o msg.data
                /\ msg.id \div 256 < 16
           ELSE /\ msg.raw_messages[1] = msg.header \o msg.data
                /\ 2 * Len(msg.raw_messages[1]) = HexDigitCount(msg.line)

\* "7E8 41 AF": the header 00 00 07 E8 and the two data bytes
C39_Witness ==
    /\ msg.op = "raw_messages"
    /\ msg.line = <<"7", "E", "8", " ", "4", "1", " ", "A", "F">>
    /\ msg.raw_messages = << <<0, 0, 7, 232, 65, 175>> >>

(***************************************************************************)
(* set_protocol with a protocol the interface does not support             *)
(***************************************************************************)
\* C40: set_protocol with an unsupported protocol raises ValueError and
\* changes nothing: no command is sent to the scan tool and a session with
\* the vehicle stays connected.  (Stated for the sessions that a
\* connect_to_vehicle which returned has established.)
C40_UnsupportedProtocolChangesNothing ==
    [][(/\ Idle /\ call'.op = "set_protocol"
        /\ outcome'.raised = "ValueError"
        /\ session_ok /\ connected_to_vehicle) =>
         /\ written' = <<>>
         /\ connected_to_vehicle'
         /\ session_ok']_vars
====
